---------------------------- MODULE Spec2Model ----------------------------
(***************************************************************************)
(* A model of the marshalling layer of tantivy_ex: the NIFs that turn      *)
(* dynamic (Erlang) terms into typed documents, queries, deletions and     *)
(* aggregations for the tantivy engine.                                    *)
(*                                                                         *)
(* Strings are sequences of one-character strings, so that splitting,      *)
(* case folding and parsing are computed and not assumed.  Integers are    *)
(* scaled from 64 to IntBits bits: u64 is 0 .. 2^IntBits - 1 and i64 is    *)
(* -2^(IntBits-1) .. 2^(IntBits-1) - 1.                                    *)
(***************************************************************************)
EXTENDS Integers, Sequences, FiniteSets, TLC

VARIABLES nif, ret, engine,
          pc, mutex, pending, committed, searchers, discarded, commit_log,
          added, ncalls,
          frame, guards, resource

vars == <<nif, ret, engine, pc, mutex, pending, committed, searchers, discarded,
          commit_log, added, ncalls, frame, guards, resource>>

\* The state of the writer, of the index and of their callers.
writer_vars == <<pc, mutex, pending, committed, searchers, discarded, commit_log,
                 added, ncalls>>

\* A resource that several callers share, the guards of its locks that each
\* caller holds and the place of each caller in the NIF it runs.
shared_vars == <<frame, guards, resource>>

\* One NIF call and what it leaves behind.
nif_vars == <<nif, ret, engine>>

(***************************************************************************)
(* Bounds of the model.                                                    *)
(***************************************************************************)
IntBits == 4

MaxBatch == 2

MaxPaths == 2

MaxAggNodes == 3

(***************************************************************************)
(* Integer widths (scaled u64 / i64).                                      *)
(***************************************************************************)
RECURSIVE Pow2(_)
Pow2(n) == IF n = 0 THEN 1 ELSE 2 * Pow2(n - 1)

MaxU64 == Pow2(IntBits) - 1

MaxI64 == Pow2(IntBits - 1) - 1

MinI64 == 0 - Pow2(IntBits - 1)

\* `x as u64` and `x as i64`: two's complement reinterpretation.
AsU64(x) == x % Pow2(IntBits)

AsI64(x) == LET m == x % Pow2(IntBits) IN IF m > MaxI64 THEN m - Pow2(IntBits) ELSE m

(***************************************************************************)
(* Results.                                                                *)
(***************************************************************************)
Ok(v) == [ok |-> TRUE, val |-> v]

Err(m) == [ok |-> FALSE, err |-> m]

IsOk(r) == r.ok

IsErr(r) == "err" \in DOMAIN r

\* A panic of the NIF (an assertion of the engine, an unwrap).
Panic(m) == [ok |-> FALSE, panic |-> m]

IsPanic(r) == "panic" \in DOMAIN r

(***************************************************************************)
(* Strings: sequences of characters.                                       *)
(***************************************************************************)
Digits == {"0", "1", "2", "3", "4", "5", "6", "7", "8", "9"}

DigitVal(c) ==
    CASE c = "0" -> 0 [] c = "1" -> 1 [] c = "2" -> 2 [] c = "3" -> 3
      [] c = "4" -> 4 [] c = "5" -> 5 [] c = "6" -> 6 [] c = "7" -> 7
      [] c = "8" -> 8 [] c = "9" -> 9

IsWhitespace(c) == c \in {" ", "\t", "\n"}

\* char::to_lowercase on the letters the model uses.
LowerChar(c) ==
    CASE c = "A" -> "a" [] c = "B" -> "b" [] c = "F" -> "f" [] c = "N" -> "n"
      [] c = "Q" -> "q" [] c = "T" -> "t" [] c = "Y" -> "y" [] c = "Z" -> "z"
      [] OTHER -> c

ToLowercase(s) == [i \in 1..Len(s) |-> LowerChar(s[i])]

RECURSIVE SplitOn(_, _, _)
\* The pieces of s between the characters satisfying the separator set,
\* empty pieces included (str::split); cur is the piece being read.
SplitOn(s, seps, cur) ==
    IF s = <<>> THEN <<cur>>
    ELSE IF Head(s) \in seps THEN <<cur>> \o SplitOn(Tail(s), seps, <<>>)
    ELSE SplitOn(Tail(s), seps, Append(cur, Head(s)))

NonEmpty(pieces) == SelectSeq(pieces, LAMBDA p : p # <<>>)

\* str::split_whitespace: the non-empty runs of non-whitespace characters.
SplitWhitespace(s) == NonEmpty(SplitOn(s, {" ", "\t", "\n"}, <<>>))

RECURSIVE TrimStartSet(_, _)
TrimStartSet(s, cs) ==
    IF s # <<>> /\ Head(s) \in cs THEN TrimStartSet(Tail(s), cs) ELSE s

RECURSIVE TrimEndSet(_, _)
TrimEndSet(s, cs) ==
    IF s # <<>> /\ s[Len(s)] \in cs THEN TrimEndSet(SubSeq(s, 1, Len(s) - 1), cs) ELSE s

\* str::trim and str::trim_matches.
TrimSet(s, cs) == TrimEndSet(TrimStartSet(s, cs), cs)

Trim(s) == TrimSet(s, {" ", "\t", "\n"})

AllDigits(s) == \A i \in 1..Len(s) : s[i] \in Digits

RECURSIVE DecVal(_)
\* The value of a string of digits, saturated just above the widest integer
\* so that overflow is seen without leaving the model's range.
DecVal(s) ==
    IF s = <<>> THEN 0
    ELSE LET v == 10 * DecVal(SubSeq(s, 1, Len(s) - 1)) + DigitVal(s[Len(s)])
         IN IF v > MaxU64 THEN MaxU64 + 1 ELSE v

\* str::parse::<u64>: an optional '+', then one digit or more, no overflow.
ParseU64(s) ==
    LET d == IF s # <<>> /\ Head(s) = "+" THEN Tail(s) ELSE s
    IN IF d = <<>> \/ ~AllDigits(d) THEN Err("ParseIntError")
       ELSE IF DecVal(d) > MaxU64 THEN Err("ParseIntError")
       ELSE Ok(DecVal(d))

\* str::parse::<i64>: an optional sign, then one digit or more, no overflow.
ParseI64(s) ==
    LET neg == s # <<>> /\ Head(s) = "-"
        d == IF s # <<>> /\ Head(s) \in {"+", "-"} THEN Tail(s) ELSE s
    IN IF d = <<>> \/ ~AllDigits(d) THEN Err("ParseIntError")
       ELSE IF neg THEN (IF DecVal(d) > 0 - MinI64 THEN Err("ParseIntError")
                         ELSE Ok(0 - DecVal(d)))
       ELSE IF DecVal(d) > MaxI64 THEN Err("ParseIntError")
       ELSE Ok(DecVal(d))

\* str::parse::<f64> on the model's grid of half units: an optional sign,
\* digits, and an optional fraction ".0" or ".5".  A float is the number of
\* halves it holds.
ParseF64(s) ==
    LET neg == s # <<>> /\ Head(s) = "-"
        d == IF s # <<>> /\ Head(s) \in {"+", "-"} THEN Tail(s) ELSE s
        parts == SplitOn(d, {"."}, <<>>)
        whole == parts[1]
        frac == IF Len(parts) = 2 THEN parts[2] ELSE <<"0">>
        h == 2 * DecVal(whole) + (IF frac = <<"5">> THEN 1 ELSE 0)
    IN IF Len(parts) > 2 \/ whole = <<>> \/ ~AllDigits(whole)
          \/ frac \notin {<<"0">>, <<"5">>}
       THEN Err("ParseFloatError")
       ELSE Ok(IF neg THEN 0 - h ELSE h)


(***************************************************************************)
(* Dynamic terms, as the caller passes them, and rustler's decoders.       *)
(*   [t |-> "int", i]      an integer of any size                          *)
(*   [t |-> "float", h]    a float, h halves                               *)
(*   [t |-> "str", s]      a UTF-8 binary                                  *)
(*   [t |-> "bool", b]     the atoms true and false                        *)
(*   [t |-> "atom", a]     any other atom                                  *)
(*   [t |-> "list", l]     a proper list                                   *)
(*   [t |-> "map", m]      a map with binary keys, m the sequence of       *)
(*                         [k, v] pairs in HashMap iteration order         *)
(***************************************************************************)
TInt(n) == [t |-> "int", i |-> n]

TFloat(k) == [t |-> "float", h |-> k]

TStr(cs) == [t |-> "str", s |-> cs]

TBool(v) == [t |-> "bool", b |-> v]

TAtom(n) == [t |-> "atom", a |-> n]

TList(xs) == [t |-> "list", l |-> xs]

TMap(ps) == [t |-> "map", m |-> ps]

KV(key, v) == [k |-> key, v |-> v]

MaxU8 == 255

DecodeU64(x) == IF x.t = "int" /\ x.i >= 0 /\ x.i <= MaxU64 THEN Ok(x.i) ELSE Err("BadArg")

DecodeI64(x) == IF x.t = "int" /\ x.i >= MinI64 /\ x.i <= MaxI64 THEN Ok(x.i) ELSE Err("BadArg")

DecodeF64(x) == IF x.t = "float" THEN Ok(x.h) ELSE Err("BadArg")

DecodeString(x) == IF x.t = "str" THEN Ok(x.s) ELSE Err("BadArg")

DecodeBool(x) == IF x.t = "bool" THEN Ok(x.b) ELSE Err("BadArg")

DecodeVecTerm(x) == IF x.t = "list" THEN Ok(x.l) ELSE Err("BadArg")

\* Vec<u8>: a list every element of which is an integer 0..255.
DecodeVecU8(x) ==
    IF x.t = "list" /\ \A j \in 1..Len(x.l) :
                          x.l[j].t = "int" /\ x.l[j].i >= 0 /\ x.l[j].i <= MaxU8
    THEN Ok([j \in 1..Len(x.l) |-> x.l[j].i])
    ELSE Err("BadArg")

\* HashMap<String, Term>.
DecodeMap(x) == IF x.t = "map" THEN Ok(x.m) ELSE Err("BadArg")

(***************************************************************************)
(* The schema: field entries in field-id order; Field(id) is entry id + 1. *)
(* Text fields are built by schema_add_text_field: "TEXT" indexes with the *)
(* default record option (Basic, no positions), "FAST_STORED" with         *)
(* WithFreqsAndPositions, "STORED" has no indexing options.                *)
(***************************************************************************)
FieldEntry(n, ty, ix) == [name |-> n, type |-> ty, indexing |-> ix]

Schema ==
    << FieldEntry("body", "Str", "Basic"),
       FieldEntry("title", "Str", "WithFreqsAndPositions"),
       FieldEntry("sku", "Str", "None"),
       FieldEntry("count", "U64", "None"),
       FieldEntry("delta", "I64", "None"),
       FieldEntry("price", "F64", "None"),
       FieldEntry("flag", "Bool", "None"),
       FieldEntry("ts", "Date", "None"),
       FieldEntry("tags", "Facet", "None"),
       FieldEntry("blob", "Bytes", "None"),
       FieldEntry("meta", "JsonObject", "None"),
       FieldEntry("ip", "IpAddr", "None") >>

FieldNames == {Schema[j].name : j \in 1..Len(Schema)}

\* Schema::get_field: the field id of a name, or FieldNotFound.
GetField(name) ==
    IF \E j \in 1..Len(Schema) : Schema[j].name = name
    THEN Ok((CHOOSE j \in 1..Len(Schema) : Schema[j].name = name) - 1)
    ELSE Err("FieldNotFound")

\* Schema::get_field_entry.
GetFieldEntry(field) == Schema[field + 1]

\* Schema::get_field_name.
GetFieldName(field) == Schema[field + 1].name

\* TextOptions::get_indexing_options().is_some()
HasIndexingOptions(entry) == entry.indexing # "None"

\* IndexRecordOption::has_positions
HasPositions(entry) == entry.indexing = "WithFreqsAndPositions"

(***************************************************************************)
(* Typed values (OwnedValue) and terms of the engine.                      *)
(***************************************************************************)
VStr(cs) == [ty |-> "Str", s |-> cs]

VU64(n) == [ty |-> "U64", u |-> n]

VI64(n) == [ty |-> "I64", i |-> n]

VF64(k) == [ty |-> "F64", h |-> k]

VBool(v) == [ty |-> "Bool", b |-> v]

\* tantivy::DateTime::from_timestamp_secs
VDate(secs) == [ty |-> "Date", secs |-> secs]

VFacet(segs) == [ty |-> "Facet", segs |-> segs]

VBytes(bs) == [ty |-> "Bytes", bytes |-> bs]

VJson(o) == [ty |-> "Json", obj |-> o]

VIp(a) == [ty |-> "IpAddr", addr |-> a]

\* One (field, value) pair of a TantivyDocument, and a Term.
FV(f, v) == [field |-> f, value |-> v]

(***************************************************************************)
(* Parsers of the libraries the NIFs call.                                 *)
(***************************************************************************)
\* tantivy::schema::Facet::from_text: the path must start with '/'; its
\* segments are the pieces between the slashes ("/" alone is the root).
FacetFromText(s) ==
    IF s = <<>> \/ Head(s) # "/" THEN Err("FacetParseError")
    ELSE IF Tail(s) = <<>> THEN Ok(<<>>)
    ELSE Ok(SplitOn(Tail(s), {"/"}, <<>>))

\* The base64 alphabet, on the characters the model uses.
B64Chars ==
    {"A", "B", "F", "N", "Q", "T", "Y", "Z", "a", "b", "f", "n", "q", "t", "x", "y", "z",
     "+", "/"} \cup Digits

B64Val(c) ==
    CASE c = "A" -> 0 [] c = "B" -> 1 [] c = "F" -> 5 [] c = "N" -> 13
      [] c = "Q" -> 16 [] c = "T" -> 19 [] c = "Y" -> 24 [] c = "Z" -> 25
      [] c = "a" -> 26 [] c = "b" -> 27 [] c = "f" -> 31 [] c = "n" -> 39
      [] c = "q" -> 42 [] c = "t" -> 45 [] c = "x" -> 49 [] c = "y" -> 50
      [] c = "z" -> 51 [] c = "+" -> 62 [] c = "/" -> 63
      [] c \in Digits -> 52 + DigitVal(c)

\* The bytes of one group of four base64 characters; npad of them are '='.
B64Group(g, npad) ==
    LET a == B64Val(g[1])
        b == B64Val(g[2])
        c == IF npad >= 2 THEN 0 ELSE B64Val(g[3])
        d == IF npad >= 1 THEN 0 ELSE B64Val(g[4])
        b1 == a * 4 + (b \div 16)
        b2 == (b % 16) * 16 + (c \div 4)
        b3 == (c % 4) * 64 + d
    IN IF npad = 2 THEN <<b1>> ELSE IF npad = 1 THEN <<b1, b2>> ELSE <<b1, b2, b3>>

RECURSIVE B64Bytes(_)
B64Bytes(s) ==
    IF s = <<>> THEN <<>>
    ELSE LET g == SubSeq(s, 1, 4)
             npad == IF g[3] = "=" THEN 2 ELSE IF g[4] = "=" THEN 1 ELSE 0
         IN B64Group(g, npad) \o B64Bytes(SubSeq(s, 5, Len(s)))

\* general_purpose::STANDARD.decode: groups of four characters, canonical
\* padding in the last group only, no stray trailing bits.
Base64Decode(s) ==
    LET n == Len(s)
        padOk(j) == s[j] = "=" => (j >= n - 1 /\ s[n] = "=")
        charOk(j) == s[j] \in B64Chars \/ s[j] = "="
        bitsOk == n = 0 \/
                  (/\ (s[n] = "=" /\ s[n - 1] # "=") => B64Val(s[n - 1]) % 4 = 0
                   /\ (s[n] = "=" /\ s[n - 1] = "=") => B64Val(s[n - 2]) % 16 = 0)
    IN IF n % 4 # 0 \/ ~(\A j \in 1..n : charOk(j) /\ padOk(j)) \/ ~bitsOk
       THEN Err("DecodeError")
       ELSE Ok(B64Bytes(s))

\* One decimal octet of a dotted quad: 1 to 3 digits, at most 255, and no
\* leading zero.
OctetOk(p) ==
    /\ Len(p) \in 1..3
    /\ AllDigits(p)
    /\ (Len(p) > 1 => p[1] # "0")
    /\ (100 * (IF Len(p) = 3 THEN DigitVal(p[1]) ELSE 0)
        + 10 * (IF Len(p) >= 2 THEN DigitVal(p[Len(p) - 1]) ELSE 0)
        + DigitVal(p[Len(p)])) <= MaxU8

OctetVal(p) ==
    100 * (IF Len(p) = 3 THEN DigitVal(p[1]) ELSE 0)
    + 10 * (IF Len(p) >= 2 THEN DigitVal(p[Len(p) - 1]) ELSE 0)
    + DigitVal(p[Len(p)])

\* str::parse::<std::net::IpAddr> on the two shapes the model uses: a dotted
\* quad, and "::d" with one digit d.
ParseIpAddr(s) ==
    LET parts == SplitOn(s, {"."}, <<>>)
    IN IF Len(parts) = 4 /\ \A j \in 1..4 : OctetOk(parts[j])
       THEN Ok([v |-> 4, octets |-> [j \in 1..4 |-> OctetVal(parts[j])]])
       ELSE IF Len(s) = 3 /\ s[1] = ":" /\ s[2] = ":" /\ s[3] \in Digits
       THEN Ok([v |-> 6, prefix |-> "0", octets |-> <<0, 0, 0, DigitVal(s[3])>>])
       ELSE Err("AddrParseError")

\* chrono::DateTime::parse_from_rfc3339(..).timestamp() on the instants of
\* 1970-01-01 in UTC, "1970-01-01Thh:mm:ssZ": the model's calendar is that
\* one day.
ParseRfc3339(s) ==
    LET two(j) == 10 * DigitVal(s[j]) + DigitVal(s[j + 1])
        shape == /\ Len(s) = 20
                 /\ SubSeq(s, 1, 11) = <<"1", "9", "7", "0", "-", "0", "1", "-", "0", "1", "T">>
                 /\ s[14] = ":" /\ s[17] = ":" /\ s[20] = "Z"
                 /\ \A j \in {12, 13, 15, 16, 18, 19} : s[j] \in Digits
    IN IF shape /\ two(12) <= 23 /\ two(15) <= 59 /\ two(18) <= 59
       THEN Ok(3600 * two(12) + 60 * two(15) + two(18))
       ELSE Err("ParseError")

(***************************************************************************)
(* JSON values and their conversion (document.rs, resources.rs).           *)
(***************************************************************************)
RECURSIVE convert_term_to_json_value(_)
convert_term_to_json_value(term) ==
    IF IsOk(DecodeString(term)) THEN [j |-> "String", s |-> term.s]
    ELSE IF IsOk(DecodeI64(term)) THEN [j |-> "Number", num |-> VI64(term.i)]
    ELSE IF IsOk(DecodeU64(term)) THEN [j |-> "Number", num |-> VU64(term.i)]
    ELSE IF IsOk(DecodeF64(term)) THEN [j |-> "Number", num |-> VF64(term.h)]
    ELSE IF IsOk(DecodeBool(term)) THEN [j |-> "Bool", b |-> term.b]
    ELSE IF IsOk(DecodeMap(term))
    THEN [j |-> "Object",
          members |-> {KV(term.m[n].k, convert_term_to_json_value(term.m[n].v)) :
                         n \in 1..Len(term.m)}]
    ELSE IF IsOk(DecodeVecTerm(term))
    THEN [j |-> "Array",
          items |-> [n \in 1..Len(term.l) |-> convert_term_to_json_value(term.l[n])]]
    ELSE [j |-> "Null"]

\* The BTreeMap is the set of its (key, value) entries.  A nested array or
\* object is stored as the string of its JSON text, kept here as the value
\* that text serialises.
convert_json_value_to_btreemap(value) ==
    IF value.j # "Object" THEN {}
    ELSE {KV(e.k,
             CASE e.v.j = "String" -> VStr(e.v.s)
               [] e.v.j = "Number" -> e.v.num
               [] e.v.j = "Bool" -> VBool(e.v.b)
               [] e.v.j \in {"Array", "Object"} -> [ty |-> "Str", json |-> e.v]
               [] e.v.j = "Null" -> VStr(<<"n", "u", "l", "l">>)) : e \in value.members}

\* resources.rs convert_ip_to_ipv6: an IPv4 address becomes ::ffff:a.b.c.d.
convert_ip_to_ipv6(ip) ==
    IF ip.v = 4 THEN [prefix |-> "ffff", octets |-> ip.octets]
    ELSE [prefix |-> ip.prefix, octets |-> ip.octets]

(***************************************************************************)
(* document.rs: add_field_to_document.  doc is the TantivyDocument, a      *)
(* sequence of (field, value) pairs; the result is Ok(the document after   *)
(* the adds) or Err(message), the document then being as it was.           *)
(***************************************************************************)
RECURSIVE AddFacetItems(_, _, _)
\* The array arm of a Facet field: an item that is no string, or no valid
\* path, is skipped.
AddFacetItems(doc, field, items) ==
    IF items = <<>> THEN doc
    ELSE LET it == Head(items)
             d1 == IF IsOk(DecodeString(it)) /\ IsOk(FacetFromText(it.s))
                   THEN Append(doc, FV(field, VFacet(FacetFromText(it.s).val)))
                   ELSE doc
         IN AddFacetItems(d1, field, Tail(items))

AddFieldU64(doc, field, value) ==
    IF IsOk(DecodeU64(value)) THEN Ok(Append(doc, FV(field, VU64(value.i))))
    ELSE IF IsOk(DecodeI64(value))
    THEN (IF value.i >= 0 THEN Ok(Append(doc, FV(field, VU64(AsU64(value.i)))))
          ELSE Err("Negative value not allowed for u64 field"))
    ELSE Err("Expected numeric value")

add_field_to_document(doc, field, field_type, value) ==
    CASE field_type = "Str" ->
           IF IsOk(DecodeString(value)) THEN Ok(Append(doc, FV(field, VStr(value.s))))
           ELSE Err("Expected string value")
      [] field_type = "U64" -> AddFieldU64(doc, field, value)
      [] field_type = "I64" ->
           IF IsOk(DecodeI64(value)) THEN Ok(Append(doc, FV(field, VI64(value.i))))
           ELSE IF IsOk(DecodeU64(value))
           THEN Ok(Append(doc, FV(field, VI64(AsI64(value.i)))))
           ELSE Err("Expected numeric value")
      [] field_type = "F64" ->
           IF IsOk(DecodeF64(value)) THEN Ok(Append(doc, FV(field, VF64(value.h))))
           ELSE IF IsOk(DecodeI64(value)) \/ IsOk(DecodeU64(value))
           THEN Ok(Append(doc, FV(field, VF64(2 * value.i))))
           ELSE Err("Expected numeric value")
      [] field_type = "Bool" ->
           IF IsOk(DecodeBool(value)) THEN Ok(Append(doc, FV(field, VBool(value.b))))
           ELSE Err("Expected boolean value")
      [] field_type = "Date" ->
           IF IsOk(DecodeI64(value)) THEN Ok(Append(doc, FV(field, VDate(value.i))))
           ELSE IF IsOk(DecodeString(value))
           THEN (IF IsOk(ParseRfc3339(value.s))
                 THEN Ok(Append(doc, FV(field, VDate(ParseRfc3339(value.s).val))))
                 ELSE Err("Invalid date format, expected ISO 8601"))
           ELSE Err("Expected timestamp (integer) or ISO 8601 date string")
      [] field_type = "Facet" ->
           IF IsOk(DecodeString(value))
           THEN (IF IsOk(FacetFromText(value.s))
                 THEN Ok(Append(doc, FV(field, VFacet(FacetFromText(value.s).val))))
                 ELSE Err("Invalid facet format"))
           ELSE IF IsOk(DecodeVecTerm(value)) THEN Ok(AddFacetItems(doc, field, value.l))
           ELSE Err("Expected string value or array of strings for facet")
      [] field_type = "Bytes" ->
           IF IsOk(DecodeVecU8(value))
           THEN Ok(Append(doc, FV(field, VBytes(DecodeVecU8(value).val))))
           ELSE IF IsOk(DecodeString(value))
           THEN (IF IsOk(Base64Decode(value.s))
                 THEN Ok(Append(doc, FV(field, VBytes(Base64Decode(value.s).val))))
                 ELSE Err("Invalid base64 encoding"))
           ELSE Err("Expected byte array or base64 string")
      [] field_type = "JsonObject" ->
           Ok(Append(doc, FV(field,
                VJson(convert_json_value_to_btreemap(convert_term_to_json_value(value))))))
      [] field_type = "IpAddr" ->
           IF ~IsOk(DecodeString(value)) THEN Err("Expected string value for IP address")
           ELSE IF ~IsOk(ParseIpAddr(value.s)) THEN Err("Invalid IP address format")
           ELSE Ok(Append(doc, FV(field, VIp(convert_ip_to_ipv6(ParseIpAddr(value.s).val)))))

(***************************************************************************)
(* document.rs: validate_field_value.                                      *)
(***************************************************************************)
validate_field_value(value, field_type) ==
    CASE field_type = "Str" ->
           IF IsOk(DecodeString(value)) THEN Ok("ok") ELSE Err("Expected string value")
      [] field_type = "U64" ->
           IF IsOk(DecodeU64(value)) THEN Ok("ok")
           ELSE IF IsOk(DecodeI64(value))
           THEN (IF value.i >= 0 THEN Ok("ok")
                 ELSE Err("Negative value not allowed for u64 field"))
           ELSE Err("Expected numeric value")
      [] field_type = "I64" ->
           IF IsOk(DecodeI64(value)) \/ IsOk(DecodeU64(value)) THEN Ok("ok")
           ELSE Err("Expected numeric value")
      [] field_type = "F64" ->
           IF IsOk(DecodeF64(value)) \/ IsOk(DecodeI64(value)) \/ IsOk(DecodeU64(value))
           THEN Ok("ok")
           ELSE Err("Expected numeric value")
      [] field_type = "Bool" ->
           IF IsOk(DecodeBool(value)) THEN Ok("ok") ELSE Err("Expected boolean value")
      [] field_type = "Date" ->
           IF IsOk(DecodeI64(value)) THEN Ok("ok")
           ELSE IF IsOk(DecodeString(value))
           THEN (IF IsOk(ParseRfc3339(value.s)) THEN Ok("ok")
                 ELSE Err("Invalid date format, expected ISO 8601"))
           ELSE Err("Expected timestamp (integer) or ISO 8601 date string")
      [] field_type = "Facet" ->
           IF IsOk(DecodeString(value))
           THEN (IF IsOk(FacetFromText(value.s)) THEN Ok("ok")
                 ELSE Err("Invalid facet format"))
           ELSE IF IsOk(DecodeVecTerm(value))
           THEN (IF \E n \in 1..Len(value.l) :
                       /\ IsOk(DecodeString(value.l[n]))
                       /\ IsErr(FacetFromText(value.l[n].s))
                 THEN Err("Invalid facet format")
                 ELSE Ok("ok"))
           ELSE Err("Expected string value or array of strings for facet")
      [] field_type = "Bytes" ->
           IF IsOk(DecodeVecU8(value)) THEN Ok("ok")
           ELSE IF IsOk(DecodeString(value))
           THEN (IF IsOk(Base64Decode(value.s)) THEN Ok("ok")
                 ELSE Err("Invalid base64 encoding"))
           ELSE Err("Expected byte array or base64 string")
      [] field_type = "JsonObject" -> Ok("ok")
      [] field_type = "IpAddr" ->
           IF ~IsOk(DecodeString(value)) THEN Err("Expected string value for IP address")
           ELSE IF ~IsOk(ParseIpAddr(value.s)) THEN Err("Invalid IP address format")
           ELSE Ok("ok")

(***************************************************************************)
(* document.rs: the per-field arms of writer_add_document and of           *)
(* writer_add_document_with_schema.  Neither has an error path: a value    *)
(* that does not fit leaves the document as it is.                         *)
(***************************************************************************)
\* The code points of the characters the model uses (str::as_bytes).
CharCode(c) ==
    CASE c \in Digits -> 48 + DigitVal(c)
      [] c = "\t" -> 9 [] c = " " -> 32 [] c = "'" -> 39 [] c = "*" -> 42 [] c = "+" -> 43
      [] c = "-" -> 45 [] c = "." -> 46 [] c = "/" -> 47 [] c = ":" -> 58
      [] c = "=" -> 61 [] c = "?" -> 63 [] c = "(" -> 40 [] c = "{" -> 123
      [] c = "}" -> 125
      [] c = "A" -> 65 [] c = "B" -> 66 [] c = "F" -> 70 [] c = "N" -> 78
      [] c = "Q" -> 81 [] c = "T" -> 84 [] c = "Y" -> 89 [] c = "Z" -> 90
      [] c = "a" -> 97 [] c = "b" -> 98 [] c = "e" -> 101 [] c = "f" -> 102
      [] c = "l" -> 108 [] c = "n" -> 110 [] c = "o" -> 111 [] c = "q" -> 113
      [] c = "r" -> 114 [] c = "s" -> 115 [] c = "t" -> 116 [] c = "u" -> 117
      [] c = "x" -> 120 [] c = "y" -> 121 [] c = "z" -> 122

AsBytes(s) == [n \in 1..Len(s) |-> CharCode(s[n])]

\* serde_json::from_str on the texts the model uses: "{}" and a number.
JsonFromStr(s) ==
    IF s = <<"{", "}">> THEN Ok([j |-> "Object", members |-> {}])
    ELSE IF IsOk(ParseI64(s)) THEN Ok([j |-> "Number", num |-> VI64(ParseI64(s).val)])
    ELSE Err("JsonError")

\* The arms the two single-document adds share.
AddFieldLenientCommon(doc, field, field_type, value) ==
    CASE field_type = "Str" ->
           IF IsOk(DecodeString(value)) THEN Append(doc, FV(field, VStr(value.s))) ELSE doc
      [] field_type = "U64" ->
           IF IsOk(DecodeU64(value)) THEN Append(doc, FV(field, VU64(value.i)))
           ELSE IF IsOk(DecodeI64(value)) /\ value.i >= 0
           THEN Append(doc, FV(field, VU64(AsU64(value.i))))
           ELSE doc
      [] field_type = "I64" ->
           IF IsOk(DecodeI64(value)) THEN Append(doc, FV(field, VI64(value.i)))
           ELSE IF IsOk(DecodeU64(value)) THEN Append(doc, FV(field, VI64(AsI64(value.i))))
           ELSE doc
      [] field_type = "Bool" ->
           IF IsOk(DecodeBool(value)) THEN Append(doc, FV(field, VBool(value.b))) ELSE doc
      [] field_type = "Facet" ->
           IF IsOk(DecodeString(value))
           THEN (IF IsOk(FacetFromText(value.s))
                 THEN Append(doc, FV(field, VFacet(FacetFromText(value.s).val)))
                 ELSE doc)
           ELSE IF IsOk(DecodeVecTerm(value)) THEN AddFacetItems(doc, field, value.l)
           ELSE doc
      [] field_type = "IpAddr" ->
           IF IsOk(DecodeString(value)) /\ IsOk(ParseIpAddr(value.s))
           THEN Append(doc, FV(field, VIp(convert_ip_to_ipv6(ParseIpAddr(value.s).val))))
           ELSE doc

\* writer_add_document (document.rs 45-129).
AddFieldPlain(doc, field, field_type, value) ==
    CASE field_type = "F64" ->
           IF IsOk(DecodeF64(value)) THEN Append(doc, FV(field, VF64(value.h)))
           ELSE IF IsOk(DecodeI64(value)) \/ IsOk(DecodeU64(value))
           THEN Append(doc, FV(field, VF64(2 * value.i)))
           ELSE doc
      [] field_type = "Date" ->
           IF IsOk(DecodeI64(value)) THEN Append(doc, FV(field, VDate(value.i)))
           ELSE IF IsOk(DecodeU64(value)) THEN Append(doc, FV(field, VDate(AsI64(value.i))))
           ELSE doc
      [] field_type = "Bytes" ->
           IF IsOk(DecodeVecU8(value)) THEN Append(doc, FV(field, VBytes(DecodeVecU8(value).val)))
           ELSE IF IsOk(DecodeString(value)) THEN Append(doc, FV(field, VBytes(AsBytes(value.s))))
           ELSE doc
      [] field_type = "JsonObject" ->
           IF IsOk(DecodeString(value)) /\ IsOk(JsonFromStr(value.s))
           THEN Append(doc, FV(field, VJson(convert_json_value_to_btreemap(JsonFromStr(value.s).val))))
           ELSE doc
      [] OTHER -> AddFieldLenientCommon(doc, field, field_type, value)

\* writer_add_document_with_schema (document.rs 485-571).
AddFieldWithSchema(doc, field, field_type, value) ==
    CASE field_type = "F64" ->
           IF IsOk(DecodeF64(value)) THEN Append(doc, FV(field, VF64(value.h)))
           ELSE IF IsOk(DecodeI64(value)) THEN Append(doc, FV(field, VF64(2 * value.i)))
           ELSE doc
      [] field_type = "Date" ->
           IF IsOk(DecodeI64(value)) THEN Append(doc, FV(field, VDate(value.i)))
           ELSE IF IsOk(DecodeString(value)) /\ IsOk(ParseRfc3339(value.s))
           THEN Append(doc, FV(field, VDate(ParseRfc3339(value.s).val)))
           ELSE doc
      [] field_type = "Bytes" ->
           IF IsOk(DecodeString(value)) /\ IsOk(Base64Decode(value.s))
           THEN Append(doc, FV(field, VBytes(Base64Decode(value.s).val)))
           ELSE doc
      [] field_type = "JsonObject" ->
           Append(doc, FV(field,
                VJson(convert_json_value_to_btreemap(convert_term_to_json_value(value)))))
      [] OTHER -> AddFieldLenientCommon(doc, field, field_type, value)

(***************************************************************************)
(* The index writer, as the NIFs see it: each call on it is appended to    *)
(* engine, the calls the running NIF made on the engine.                   *)
(***************************************************************************)
EAddDocument(doc) == [call |-> "add_document", doc |-> doc]

EDeleteTerm(term) == [call |-> "delete_term", term |-> term]

EDeleteQuery(query) == [call |-> "delete_query", query |-> query]

ESearch(aggs) == [call |-> "search", aggs |-> aggs]

\* What a NIF leaves behind: its name and arguments, the final value of its
\* local variables where a claim reads them, its return value, and the
\* calls it made on the engine.
Return(op, args, locals, result, calls) ==
    /\ nif' = [op |-> op, args |-> args, locals |-> locals]
    /\ ret' = result
    /\ engine' = calls
    /\ UNCHANGED <<writer_vars, shared_vars>>

NoLocals == [none |-> TRUE]

(***************************************************************************)
(* document.rs: writer_add_document and writer_add_document_with_schema.   *)
(***************************************************************************)
RECURSIVE MapFieldsLenient(_, _, _)
\* The loop over doc_map: a key that is no field of the schema is skipped.
MapFieldsLenient(pairs, doc, with_schema) ==
    IF pairs = <<>> THEN doc
    ELSE LET p == Head(pairs)
             f == GetField(p.k)
             d1 == IF IsErr(f) THEN doc
                   ELSE IF with_schema
                   THEN AddFieldWithSchema(doc, f.val, GetFieldEntry(f.val).type, p.v)
                   ELSE AddFieldPlain(doc, f.val, GetFieldEntry(f.val).type, p.v)
         IN MapFieldsLenient(Tail(pairs), d1, with_schema)

AddDocumentResult(accepted) ==
    IF accepted THEN Ok("ok") ELSE Err([msg |-> "Failed to add document"])

\* accepted: whether IndexWriter::add_document returns Ok.
writer_add_document(document, accepted) ==
    IF IsErr(DecodeMap(document))
    THEN Return("writer_add_document", [document |-> document], NoLocals,
                Err([msg |-> "Failed to decode document map: Expected a map"]), <<>>)
    ELSE Return("writer_add_document", [document |-> document], NoLocals,
                AddDocumentResult(accepted),
                <<EAddDocument(MapFieldsLenient(document.m, <<>>, FALSE))>>)

writer_add_document_with_schema(document, accepted) ==
    IF IsErr(DecodeMap(document))
    THEN Return("writer_add_document_with_schema", [document |-> document], NoLocals,
                Err([msg |-> "Failed to decode document map: Expected a map"]), <<>>)
    ELSE Return("writer_add_document_with_schema", [document |-> document], NoLocals,
                AddDocumentResult(accepted),
                <<EAddDocument(MapFieldsLenient(document.m, <<>>, TRUE))>>)

(***************************************************************************)
(* document.rs: writer_add_document_batch.                                 *)
(***************************************************************************)
RECURSIVE BatchFields(_, _)
\* The loop over one document's fields (609-629): Ok(the document built) or,
\* at the first field that fails, Err(its name and message).
BatchFields(pairs, doc) ==
    IF pairs = <<>> THEN Ok(doc)
    ELSE LET p == Head(pairs)
             f == GetField(p.k)
         IN IF IsErr(f) THEN BatchFields(Tail(pairs), doc)
            ELSE LET r == add_field_to_document(doc, f.val, GetFieldEntry(f.val).type, p.v)
                 IN IF IsOk(r) THEN BatchFields(Tail(pairs), r.val)
                    ELSE Err([field |-> p.k, msg |-> r.err])

\* One turn of the loop over the documents (597-639).  st holds the locals
\* successful_count and errors, and the calls made on the writer so far.
BatchDocument(st, index, document, accepted) ==
    IF IsErr(DecodeMap(document))
    THEN [st EXCEPT !.errors = Append(@, [index |-> index, msg |-> "Failed to decode document"])]
    ELSE LET b == BatchFields(document.m, <<>>)
         IN IF IsErr(b)
            THEN [st EXCEPT !.errors = Append(@, [index |-> index, field |-> b.err.field,
                                                    msg |-> b.err.msg])]
            ELSE IF accepted
            THEN [st EXCEPT !.successful_count = @ + 1,
                            !.calls = Append(@, EAddDocument(b.val))]
            ELSE [st EXCEPT !.errors = Append(@, [index |-> index,
                                                    msg |-> "Failed to add document"]),
                            !.calls = Append(@, EAddDocument(b.val))]

RECURSIVE BatchLoopAborting(_, _, _, _)
\* The loop C4 rules out: one that stops at the first document that fails.
BatchLoopAborting(st, index, documents, refused) ==
    IF index >= Len(documents) \/ st.errors # <<>> THEN st
    ELSE BatchLoopAborting(BatchDocument(st, index, documents[index + 1], index \notin refused),
                           index + 1, documents, refused)

RECURSIVE BatchLoop(_, _, _, _)
\* refused: the indexes at which IndexWriter::add_document returns Err.
BatchLoop(st, index, documents, refused) ==
    IF index >= Len(documents) THEN st
    ELSE BatchLoop(BatchDocument(st, index, documents[index + 1], index \notin refused),
                   index + 1, documents, refused)

writer_add_document_batch(documents, refused) ==
    LET st == BatchLoop([successful_count |-> 0, errors |-> <<>>, calls |-> <<>>],
                        0, documents, refused)
    IN Return("writer_add_document_batch", [documents |-> documents, refused |-> refused],
              [errors |-> st.errors],
              Ok([successful |-> st.successful_count, errors |-> Len(st.errors)]),
              st.calls)

(***************************************************************************)
(* document.rs: validate_document_against_schema.                          *)
(***************************************************************************)
RECURSIVE ValidateFields(_, _)
\* The loop 669-679: every failing field and every unknown key adds one
\* entry to validation_errors.
ValidateFields(pairs, validation_errors) ==
    IF pairs = <<>> THEN validation_errors
    ELSE LET p == Head(pairs)
             f == GetField(p.k)
             r == validate_field_value(p.v, GetFieldEntry(f.val).type)
         IN IF IsErr(f)
            THEN ValidateFields(Tail(pairs),
                                Append(validation_errors, [field |-> p.k, msg |-> "Unknown field"]))
            ELSE IF IsErr(r)
            THEN ValidateFields(Tail(pairs),
                                Append(validation_errors, [field |-> p.k, msg |-> r.err]))
            ELSE ValidateFields(Tail(pairs), validation_errors)

validate_document_against_schema(document) ==
    IF IsErr(DecodeMap(document))
    THEN Return("validate_document_against_schema", [document |-> document], NoLocals,
                Err([msg |-> "Failed to decode document map"]), <<>>)
    ELSE LET errs == ValidateFields(document.m, <<>>)
         IN Return("validate_document_against_schema", [document |-> document],
                   [errors |-> errs],
                   IF errs = <<>> THEN Ok("ok") ELSE Err([msg |-> "joined", errors |-> errs]),
                   <<>>)

(***************************************************************************)
(* Queries of the engine.                                                  *)
(***************************************************************************)
QTerm(term, option) == [q |-> "Term", term |-> term, option |-> option]

QPhrase(terms) == [q |-> "Phrase", terms |-> terms]

QBoolean(clauses) == [q |-> "Boolean", clauses |-> clauses]

Clause(occur, query) == [occur |-> occur, query |-> query]

Unbounded == [b |-> "Unbounded"]

Included(term) == [b |-> "Included", term |-> term]

QRange(lower, upper) == [q |-> "Range", lower |-> lower, upper |-> upper]

QFuzzy(term, distance, prefix) ==
    [q |-> "Fuzzy", term |-> term, distance |-> distance, prefix |-> prefix]

QRegex(field, pattern) == [q |-> "Regex", field |-> field, pattern |-> pattern]

QPhrasePrefix(terms, max_expansions) ==
    [q |-> "PhrasePrefix", terms |-> terms, max_expansions |-> max_expansions]

QExists(field_name) == [q |-> "Exists", field_name |-> field_name]

\* PhraseQuery::new asserts that it is given more than one term.
PhraseQueryNew(terms) ==
    IF Len(terms) > 1 THEN Ok(QPhrase(terms))
    ELSE Panic("A phrase query is required to have strictly more than one term")

\* The per-word terms and clauses both NIFs build for a tokenized field.
WordTerms(field, words) == [n \in 1..Len(words) |-> FV(field, VStr(ToLowercase(words[n])))]

MustClauses(field, words) ==
    [n \in 1..Len(words) |-> Clause("Must", QTerm(WordTerms(field, words)[n], "Basic"))]

\* The strings a Bool field reads as true and as false.
TrueWords == {<<"t", "r", "u", "e">>, <<"t">>, <<"1">>, <<"y", "e", "s">>, <<"y">>}

FalseWords == {<<"f", "a", "l", "s", "e">>, <<"f">>, <<"0">>, <<"n", "o">>, <<"n">>}

(***************************************************************************)
(* document.rs: writer_delete_term.                                        *)
(***************************************************************************)
\* The Str arm (235-302): Ok of the query or the term to delete by.
DeleteTargetStr(field, entry, term_value) ==
    IF IsErr(DecodeString(term_value))
    THEN Err([msg |-> "Invalid string value for text field"])
    ELSE IF HasIndexingOptions(entry)
    THEN LET words == SplitWhitespace(term_value.s)
         IN IF Len(words) = 1
            THEN Ok([by |-> "query", query |-> QTerm(WordTerms(field, words)[1], "Basic")])
            ELSE IF HasPositions(entry)
            THEN (IF IsPanic(PhraseQueryNew(WordTerms(field, words)))
                  THEN PhraseQueryNew(WordTerms(field, words))
                  ELSE Ok([by |-> "query", query |-> PhraseQueryNew(WordTerms(field, words)).val]))
            ELSE Ok([by |-> "query", query |-> QBoolean(MustClauses(field, words))])
    ELSE Ok([by |-> "term", term |-> FV(field, VStr(term_value.s))])

\* The arms of the scalar types (303-446) and the catch-all (447-452).
DeleteTargetScalar(field, entry, term_field, term_value) ==
    CASE entry.type = "U64" ->
           IF IsOk(DecodeU64(term_value))
           THEN Ok([by |-> "term", term |-> FV(field, VU64(term_value.i))])
           ELSE IF IsOk(DecodeI64(term_value))
           THEN (IF term_value.i >= 0
                 THEN Ok([by |-> "term", term |-> FV(field, VU64(AsU64(term_value.i)))])
                 ELSE Err([msg |-> "Negative value not allowed for u64 field"]))
           ELSE IF IsOk(DecodeString(term_value))
           THEN (IF IsOk(ParseU64(term_value.s))
                 THEN Ok([by |-> "term", term |-> FV(field, VU64(ParseU64(term_value.s).val))])
                 ELSE Err([msg |-> "Cannot parse as u64", field |-> term_field,
                           value |-> term_value.s]))
           ELSE Err([msg |-> "Invalid value for u64 field - expected number or numeric string"])
      [] entry.type = "I64" ->
           IF IsOk(DecodeI64(term_value))
           THEN Ok([by |-> "term", term |-> FV(field, VI64(term_value.i))])
           ELSE IF IsOk(DecodeU64(term_value))
           THEN Ok([by |-> "term", term |-> FV(field, VI64(AsI64(term_value.i)))])
           ELSE IF IsOk(DecodeString(term_value))
           THEN (IF IsOk(ParseI64(term_value.s))
                 THEN Ok([by |-> "term", term |-> FV(field, VI64(ParseI64(term_value.s).val))])
                 ELSE Err([msg |-> "Cannot parse as i64", field |-> term_field,
                           value |-> term_value.s]))
           ELSE Err([msg |-> "Invalid value for i64 field - expected number or numeric string"])
      [] entry.type = "F64" ->
           IF IsOk(DecodeF64(term_value))
           THEN Ok([by |-> "term", term |-> FV(field, VF64(term_value.h))])
           ELSE IF IsOk(DecodeI64(term_value))
           THEN Ok([by |-> "term", term |-> FV(field, VF64(2 * term_value.i))])
           ELSE IF IsOk(DecodeString(term_value))
           THEN (IF IsOk(ParseF64(term_value.s))
                 THEN Ok([by |-> "term", term |-> FV(field, VF64(ParseF64(term_value.s).val))])
                 ELSE Err([msg |-> "Cannot parse as f64", field |-> term_field,
                           value |-> term_value.s]))
           ELSE Err([msg |-> "Invalid value for f64 field - expected number or numeric string"])
      [] entry.type = "Bool" ->
           IF IsOk(DecodeBool(term_value))
           THEN Ok([by |-> "term", term |-> FV(field, VBool(term_value.b))])
           ELSE IF IsOk(DecodeString(term_value))
           THEN (IF ToLowercase(term_value.s) \in TrueWords
                 THEN Ok([by |-> "term", term |-> FV(field, VBool(TRUE))])
                 ELSE IF ToLowercase(term_value.s) \in FalseWords
                 THEN Ok([by |-> "term", term |-> FV(field, VBool(FALSE))])
                 ELSE Err([msg |-> "Cannot parse as boolean", field |-> term_field,
                           value |-> term_value.s]))
           ELSE Err([msg |-> "Invalid value for bool field - expected boolean or boolean string"])
      [] entry.type = "Date" ->
           IF IsOk(DecodeI64(term_value))
           THEN Ok([by |-> "term", term |-> FV(field, VDate(term_value.i))])
           ELSE IF IsOk(DecodeString(term_value))
           THEN (IF IsOk(ParseI64(term_value.s))
                 THEN Ok([by |-> "term", term |-> FV(field, VDate(ParseI64(term_value.s).val))])
                 ELSE Err([msg |-> "Cannot parse as timestamp", field |-> term_field,
                           value |-> term_value.s]))
           ELSE Err([msg |-> "Invalid value for date field - expected timestamp or timestamp string"])
      [] OTHER -> Err([msg |-> "Unsupported field type for deletion", type |-> entry.type])

\* What writer_delete_term deletes by, for a field name and a value.
DeleteTarget(term_field, term_value) ==
    LET f == GetField(term_field)
    IN IF IsErr(f) THEN Err([msg |-> "Field not found in schema", field |-> term_field])
       ELSE IF GetFieldEntry(f.val).type = "Str"
       THEN DeleteTargetStr(f.val, GetFieldEntry(f.val), term_value)
       ELSE DeleteTargetScalar(f.val, GetFieldEntry(f.val), term_field, term_value)

\* accepted: whether IndexWriter::delete_query returns Ok (delete_term
\* cannot fail).
writer_delete_term(term_field, term_value, accepted) ==
    LET target == DeleteTarget(term_field, term_value)
        args == [term_field |-> term_field, term_value |-> term_value]
    IN IF ~IsOk(target) THEN Return("writer_delete_term", args, NoLocals, target, <<>>)
       ELSE IF target.val.by = "term"
       THEN Return("writer_delete_term", args, NoLocals, Ok("ok"),
                   <<EDeleteTerm(target.val.term)>>)
       ELSE Return("writer_delete_term", args, NoLocals,
                   IF accepted THEN Ok("ok") ELSE Err([msg |-> "Failed to delete by query"]),
                   <<EDeleteQuery(target.val.query)>>)

(***************************************************************************)
(* query.rs: the query constructors.  Each is a pure function of the       *)
(* schema and its arguments; QueryNif records its result.                  *)
(***************************************************************************)
FieldNotFound(field_name) == Err([msg |-> "Field not found", field |-> field_name])

\* The Str arm of query_term (97-133).
QueryTermStr(field, entry, term_value) ==
    IF HasIndexingOptions(entry)
    THEN LET words == SplitWhitespace(term_value)
         IN IF Len(words) > 1 THEN Ok(QBoolean(MustClauses(field, words)))
            ELSE Ok(QTerm(FV(field, VStr(ToLowercase(term_value))), "Basic"))
    ELSE Ok(QTerm(FV(field, VStr(term_value)), "Basic"))

\* The U64 arm of query_term (134-153): a value that does not parse, even
\* trimmed of blanks and quotes, becomes a text term.
QueryTermU64(field, term_value) ==
    LET clean_value == TrimSet(Trim(term_value), {"\"", "'"})
    IN IF IsOk(ParseU64(term_value))
       THEN Ok(QTerm(FV(field, VU64(ParseU64(term_value).val)), "Basic"))
       ELSE IF IsOk(ParseU64(clean_value))
       THEN Ok(QTerm(FV(field, VU64(ParseU64(clean_value).val)), "Basic"))
       ELSE Ok(QTerm(FV(field, VStr(term_value)), "Basic"))

query_term(field_name, term_value) ==
    LET f == GetField(field_name)
        entry == GetFieldEntry(f.val)
        invalid(what) == Err([msg |-> what, field |-> field_name, value |-> term_value])
    IN IF IsErr(f) THEN FieldNotFound(field_name)
       ELSE CASE entry.type = "Str" -> QueryTermStr(f.val, entry, term_value)
              [] entry.type = "U64" -> QueryTermU64(f.val, term_value)
              [] entry.type = "I64" ->
                   IF IsOk(ParseI64(term_value))
                   THEN Ok(QTerm(FV(f.val, VI64(ParseI64(term_value).val)), "Basic"))
                   ELSE invalid("Invalid i64 value")
              [] entry.type = "F64" ->
                   IF IsOk(ParseF64(term_value))
                   THEN Ok(QTerm(FV(f.val, VF64(ParseF64(term_value).val)), "Basic"))
                   ELSE invalid("Invalid f64 value")
              [] entry.type = "Bool" ->
                   IF ToLowercase(term_value) \in TrueWords
                   THEN Ok(QTerm(FV(f.val, VBool(TRUE)), "Basic"))
                   ELSE IF ToLowercase(term_value) \in FalseWords
                   THEN Ok(QTerm(FV(f.val, VBool(FALSE)), "Basic"))
                   ELSE invalid("Invalid boolean value")
              [] entry.type = "Date" ->
                   IF IsOk(ParseI64(term_value))
                   THEN Ok(QTerm(FV(f.val, VDate(ParseI64(term_value).val)), "Basic"))
                   ELSE invalid("Invalid timestamp value for date field")
              [] OTHER -> Err([msg |-> "Unsupported field type for term query",
                               field |-> field_name, type |-> entry.type])

TextTerms(field, strs) == [n \in 1..Len(strs) |-> FV(field, VStr(strs[n]))]

query_phrase(field_name, phrase_terms) ==
    LET f == GetField(field_name)
    IN IF IsErr(f) THEN FieldNotFound(field_name)
       ELSE PhraseQueryNew(TextTerms(f.val, phrase_terms))

\* A bound of a range query: None is Unbounded, Some(x) is Included.
None == [some |-> FALSE]

Some(x) == [some |-> TRUE, x |-> x]

RangeBound(field, opt, variant) ==
    IF ~opt.some THEN Unbounded
    ELSE Included(FV(field, CASE variant = "U64" -> VU64(opt.x)
                              [] variant = "I64" -> VI64(opt.x)
                              [] variant = "F64" -> VF64(opt.x)))

\* query_range_u64, query_range_i64 and query_range_f64 differ in the type
\* of the bounds only.
query_range(variant, field_name, start, end) ==
    LET f == GetField(field_name)
    IN IF IsErr(f) THEN FieldNotFound(field_name)
       ELSE Ok(QRange(RangeBound(f.val, start, variant), RangeBound(f.val, end, variant)))

query_fuzzy(field_name, term_value, distance, prefix) ==
    LET f == GetField(field_name)
    IN IF IsErr(f) THEN FieldNotFound(field_name)
       ELSE Ok(QFuzzy(FV(f.val, VStr(term_value)), distance, prefix))

RECURSIVE ParenDepthOk(_, _)
\* Whether the parentheses of a pattern balance.
ParenDepthOk(p, depth) ==
    IF p = <<>> THEN depth = 0
    ELSE IF Head(p) = "\\" /\ Len(p) >= 2 THEN ParenDepthOk(Tail(Tail(p)), depth)
    ELSE IF Head(p) = "(" THEN ParenDepthOk(Tail(p), depth + 1)
    ELSE IF Head(p) = ")" THEN depth > 0 /\ ParenDepthOk(Tail(p), depth - 1)
    ELSE ParenDepthOk(Tail(p), depth)

\* RegexQuery::from_pattern: the pattern must compile.  On the model's
\* characters a pattern fails to compile when its parentheses do not
\* balance or it starts with a repetition operator.
RegexFromPattern(pattern, field) ==
    IF ~ParenDepthOk(pattern, 0) \/ (pattern # <<>> /\ Head(pattern) \in {"*", "?", "+"})
    THEN Err([msg |-> "regex parse error"])
    ELSE Ok(QRegex(field, pattern))

query_regex(field_name, pattern) ==
    LET f == GetField(field_name)
        r == RegexFromPattern(pattern, f.val)
    IN IF IsErr(f) THEN FieldNotFound(field_name)
       ELSE IF IsOk(r) THEN r
       ELSE Err([msg |-> "Failed to create regex query"])

RECURSIVE ReplaceChar(_, _, _)
\* str::replace of one character by a string.
ReplaceChar(s, c, by) ==
    IF s = <<>> THEN <<>>
    ELSE (IF Head(s) = c THEN by ELSE <<Head(s)>>) \o ReplaceChar(Tail(s), c, by)

Contains(s, c) == \E n \in 1..Len(s) : s[n] = c

query_wildcard(field_name, pattern) ==
    LET f == GetField(field_name)
        regex_pattern == ReplaceChar(ReplaceChar(pattern, "*", <<".", "*">>), "?", <<".">>)
        r == RegexFromPattern(regex_pattern, f.val)
        prefix == SubSeq(pattern, 1, Len(pattern) - 1)
    IN IF IsErr(f) THEN FieldNotFound(field_name)
       ELSE IF IsOk(r) THEN r
       ELSE IF /\ pattern # <<>> /\ pattern[Len(pattern)] = "*"
               /\ ~Contains(prefix, "*")
               /\ ~Contains(pattern, "?")
       THEN Ok(QTerm(FV(f.val, VStr(prefix)), "WithFreqs"))
       ELSE Err([msg |-> "Failed to create wildcard query"])

\* lib.rs, query_wildcard: the characters its loop escapes.
EscapedChars == {"[", "]", "(", ")", "{", "}", ".", "+", "^", "$", "|"}

RECURSIVE WildcardLoop(_)
\* lib.rs, query_wildcard: the loop over pattern.chars().
WildcardLoop(pattern) ==
    IF pattern = <<>> THEN <<>>
    ELSE LET c == Head(pattern)
         IN (IF c = "*" THEN <<".", "*">>
             ELSE IF c = "?" THEN <<".">>
             ELSE IF c \in EscapedChars THEN <<"\\", c>>
             ELSE <<c>>) \o WildcardLoop(Tail(pattern))

\* lib.rs, query_wildcard: the copy of the function in the crate root.
lib_query_wildcard(field_name, pattern) ==
    LET f == GetField(field_name)
        regex_pattern == WildcardLoop(pattern)
        r == RegexFromPattern(regex_pattern, f.val)
        prefix == SubSeq(pattern, 1, Len(pattern) - 1)
    IN IF IsErr(f) THEN FieldNotFound(field_name)
       ELSE IF IsOk(r) THEN r
       ELSE IF /\ pattern # <<>> /\ pattern[Len(pattern)] = "*"
               /\ ~Contains(prefix, "*")
               /\ ~Contains(pattern, "?")
       THEN Ok(QTerm(FV(f.val, VStr(prefix)), "WithFreqs"))
       ELSE Err([msg |-> "Failed to create wildcard query"])

RECURSIVE RegexMatches(_, _)
\* The automaton of a compiled RegexQuery run on a whole term of the
\* dictionary: an atom is an escaped character, the dot or a character
\* standing for itself, and a star repeats the atom before it.  (A pattern
\* that compiles has its groups balanced; the patterns of the model never
\* close a group, so a compiled one has no group.)
RegexMatches(re, text) ==
    IF re = <<>> THEN text = <<>>
    ELSE LET escaped == Head(re) = "\\" /\ Len(re) >= 2
             n == IF escaped THEN 2 ELSE 1
             any == ~escaped /\ Head(re) = "."
             lit == re[n]
             starred == Len(re) > n /\ re[n + 1] = "*"
             rest == SubSeq(re, n + (IF starred THEN 2 ELSE 1), Len(re))
             first == text # <<>> /\ (any \/ Head(text) = lit)
         IN IF starred
            THEN RegexMatches(rest, text) \/ (first /\ RegexMatches(re, Tail(text)))
            ELSE first /\ RegexMatches(rest, Tail(text))

\* PhrasePrefixQuery::new asserts that it is given a term.
query_phrase_prefix(field_name, phrase_terms, max_expansions) ==
    LET f == GetField(field_name)
    IN IF IsErr(f) THEN FieldNotFound(field_name)
       ELSE IF phrase_terms = <<>> THEN Panic("A phrase prefix query needs a term")
       ELSE Ok(QPhrasePrefix(TextTerms(f.val, phrase_terms), max_expansions))

\* query_exists does not read its schema argument.
query_exists(field_name) == Ok(QExists(field_name))

\* facet_term_query of query.rs (708-742).
query_facet_term_query(field_name, facet_path) ==
    LET f == GetField(field_name)
        facet == FacetFromText(facet_path)
    IN IF IsErr(f) THEN Err([msg |-> "Field not found in schema", field |-> field_name])
       ELSE IF IsErr(facet) THEN Err([msg |-> "Invalid facet path", path |-> facet_path])
       ELSE Ok(QTerm(FV(f.val, VFacet(facet.val)), "Basic"))

(***************************************************************************)
(* facet.rs: facet_term_query and facet_multi_query.  Both build their     *)
(* terms on Field::from_field_id(0).                                       *)
(***************************************************************************)
PlaceholderField == 0

facet_term_query(field_name, facet_path) ==
    LET facet == FacetFromText(facet_path)
    IN IF IsErr(facet) THEN Err([msg |-> "Invalid facet path", path |-> facet_path])
       ELSE Ok(QTerm(FV(PlaceholderField, VFacet(facet.val)), "Basic"))

\* BooleanQuery::new_multiterms_query: a Should clause for each term.
NewMultitermsQuery(terms) ==
    QBoolean([n \in 1..Len(terms) |-> Clause("Should", QTerm(terms[n], "WithFreqs"))])

facet_multi_query(field_name, facet_paths, occur_str) ==
    IF \E n \in 1..Len(facet_paths) : IsErr(FacetFromText(facet_paths[n]))
    THEN LET bad == CHOOSE n \in 1..Len(facet_paths) :
                       /\ IsErr(FacetFromText(facet_paths[n]))
                       /\ \A k \in 1..(n - 1) : IsOk(FacetFromText(facet_paths[k]))
         IN Err([msg |-> "Invalid facet path", path |-> facet_paths[bad]])
    ELSE Ok(NewMultitermsQuery(
              [n \in 1..Len(facet_paths) |->
                 FV(PlaceholderField, VFacet(FacetFromText(facet_paths[n]).val))]))

\* A query constructor called: its name, arguments and result.
QueryNif(op, args, result) == Return(op, args, NoLocals, result, <<>>)

(***************************************************************************)
(* Rendering of the stored values of a hit: search.rs                      *)
(* searcher_search_with_query and aggregation.rs                           *)
(* run_search_with_aggregations / convert_owned_value_to_json.  A rendered *)
(* value is a JSON value, as in convert_term_to_json_value.                *)
(***************************************************************************)
DigitChars == <<"0", "1", "2", "3", "4", "5", "6", "7", "8", "9">>

RECURSIVE DecString(_)
\* Display of an unsigned integer.
DecString(n) ==
    IF n < 10 THEN <<DigitChars[n + 1]>>
    ELSE DecString(n \div 10) \o <<DigitChars[(n % 10) + 1]>>

Pad2(n) == <<DigitChars[(n \div 10) + 1], DigitChars[(n % 10) + 1]>>

SecsPerDay == 86400

\* DateTime::into_timestamp_nanos of a whole number of seconds: the i64
\* secs * 10^9, kept as its count of 10^9.
TimestampNanos(secs) == [ty |-> "I64", e9 |-> secs]

\* Debug of tantivy::DateTime: the instant in UTC as RFC 3339 text, on the
\* model's calendar (the day 1970-01-01 and the day before it).
FormatRfc3339(secs) ==
    LET t == secs % SecsPerDay
        day == IF secs < 0
               THEN <<"1", "9", "6", "9", "-", "1", "2", "-", "3", "1">>
               ELSE <<"1", "9", "7", "0", "-", "0", "1", "-", "0", "1">>
    IN day \o <<"T">> \o Pad2(t \div 3600) \o <<":">> \o Pad2((t % 3600) \div 60)
       \o <<":">> \o Pad2(t % 60) \o <<"Z">>

RECURSIVE FacetToString(_)
\* Display of a Facet: each segment after a slash; the root is "/".
FacetToString(segs) ==
    IF segs = <<>> THEN <<"/">>
    ELSE IF Len(segs) = 1 THEN <<"/">> \o segs[1]
    ELSE <<"/">> \o segs[1] \o FacetToString(Tail(segs))

B64Alphabet ==
    <<"A", "B", "C", "D", "E", "F", "G", "H", "I", "J", "K", "L", "M", "N", "O", "P",
      "Q", "R", "S", "T", "U", "V", "W", "X", "Y", "Z", "a", "b", "c", "d", "e", "f",
      "g", "h", "i", "j", "k", "l", "m", "n", "o", "p", "q", "r", "s", "t", "u", "v",
      "w", "x", "y", "z", "0", "1", "2", "3", "4", "5", "6", "7", "8", "9", "+", "/">>

RECURSIVE Base64Encode(_)
\* general_purpose::STANDARD.encode: three bytes to four characters, the
\* last group padded with '='.
Base64Encode(bytes) ==
    LET n == Len(bytes)
        b1 == bytes[1]
        b2 == IF n >= 2 THEN bytes[2] ELSE 0
        b3 == IF n >= 3 THEN bytes[3] ELSE 0
        c(k) == B64Alphabet[k + 1]
    IN IF n = 0 THEN <<>>
       ELSE <<c(b1 \div 4), c((b1 % 4) * 16 + (b2 \div 16))>>
            \o (IF n = 1 THEN <<"=", "=">>
                ELSE <<c((b2 % 16) * 4 + (b3 \div 64))>>
                     \o (IF n = 2 THEN <<"=">> ELSE <<c(b3 % 64)>>))
            \o (IF n > 3 THEN Base64Encode(SubSeq(bytes, 4, n)) ELSE <<>>)

\* Display of an Ipv6Addr, on the addresses convert_ip_to_ipv6 yields in the
\* model: an IPv4-mapped address is "::ffff:a.b.c.d", the others "::d".
Ipv6ToString(addr) ==
    IF addr.prefix = "ffff"
    THEN <<":", ":", "f", "f", "f", "f", ":">>
         \o DecString(addr.octets[1]) \o <<".">> \o DecString(addr.octets[2]) \o <<".">>
         \o DecString(addr.octets[3]) \o <<".">> \o DecString(addr.octets[4])
    ELSE IF addr.octets[4] = 0 THEN <<":", ":">>
    ELSE <<":", ":">> \o DecString(addr.octets[4])

JString(cs) == [j |-> "String", s |-> cs]

JNumber(n) == [j |-> "Number", num |-> n]

\* A string holding the text of a value: the JSON text of a nested value
\* kept as a string, or the Debug text of a stored value.
JText(how, v) == [j |-> "String", text |-> how, of |-> v]

\* search.rs, searcher_search_with_query: the chain of value.as_*() that
\* renders one stored value of a hit.
search_json_value(value) ==
    CASE value.ty = "Str" ->
           IF "json" \in DOMAIN value THEN JText("json", value.json) ELSE JString(value.s)
      [] value.ty \in {"U64", "I64", "F64"} -> JNumber(value)
      [] value.ty = "Bool" -> [j |-> "Bool", b |-> value.b]
      [] value.ty = "Date" -> JString(FormatRfc3339(value.secs))
      [] value.ty = "Facet" -> JString(FacetToString(value.segs))
      [] value.ty = "Bytes" -> JString(Base64Encode(value.bytes))
      [] value.ty = "Json" ->
           [j |-> "Object", members |-> {KV(e.k, JText("debug", e.v)) : e \in value.obj}]
      [] value.ty = "IpAddr" -> JString(Ipv6ToString(value.addr))

\* aggregation.rs, convert_owned_value_to_json, on the variants the
\* document builder stores.  The members of a stored object are scalars.
convert_owned_value_to_json(value) ==
    LET scalar(v) ==
            CASE v.ty = "Str" ->
                   IF "json" \in DOMAIN v THEN JText("json", v.json) ELSE JString(v.s)
              [] v.ty \in {"U64", "I64", "F64"} -> JNumber(v)
              [] v.ty = "Bool" -> [j |-> "Bool", b |-> v.b]
    IN CASE value.ty \in {"Str", "U64", "I64", "F64", "Bool"} -> scalar(value)
         [] value.ty = "Date" -> JNumber(TimestampNanos(value.secs))
         [] value.ty = "Facet" -> JString(FacetToString(value.segs))
         [] value.ty = "Bytes" -> JString(Base64Encode(value.bytes))
         [] value.ty = "IpAddr" -> JString(Ipv6ToString(value.addr))
         [] value.ty = "Json" ->
              [j |-> "Object", members |-> {KV(e.k, scalar(e.v)) : e \in value.obj}]

\* doc_map.insert(field_name, value) over doc.field_values(): a later value
\* of a field replaces an earlier one.
FieldsOfDoc(doc) == {GetFieldName(doc[n].field) : n \in 1..Len(doc)}

LastValue(doc, name) ==
    LET ns == {n \in 1..Len(doc) : GetFieldName(doc[n].field) = name}
    IN doc[CHOOSE n \in ns : \A m \in ns : m <= n].value

\* The hit of searcher_search_with_query for the stored document doc.
SearchHit(doc, include_docs) ==
    [score |-> "score", doc_id |-> 0,
     fields |-> IF include_docs
                THEN [name \in FieldsOfDoc(doc) |-> search_json_value(LastValue(doc, name))]
                ELSE <<>>]

\* The hit of run_search_with_aggregations for the stored document doc.
AggregationHit(doc) ==
    [fields |-> [name \in FieldsOfDoc(doc) |->
                     convert_owned_value_to_json(LastValue(doc, name))]]

\* The document a searcher finds: built by add_field_to_document from one
\* value of a field (every field of the model's schema is stored).
StoredDocument(field_name, value) ==
    add_field_to_document(<<>>, GetField(field_name).val,
                          GetFieldEntry(GetField(field_name).val).type, value)

\* docs: the stored documents the search finds, at most one in the model.
StoredDocs(indexed) == [n \in 1..Len(indexed) |->
                          StoredDocument(indexed[n].field_name, indexed[n].value).val]

searcher_search_with_query(indexed, include_docs, searched) ==
    LET docs == StoredDocs(indexed)
    IN Return("searcher_search_with_query",
              [indexed |-> indexed, include_docs |-> include_docs],
              [docs |-> docs],
              IF searched
              THEN Ok([n \in 1..Len(docs) |-> SearchHit(docs[n], include_docs)])
              ELSE Err([msg |-> "Search failed"]),
              <<ESearch({})>>)

(***************************************************************************)
(* aggregation.rs: run_aggregations.  A request is the JSON object of the  *)
(* call, a forest of named nodes: node n has the aggregation type name     *)
(* kind[n], the target field[n], and lies in the "aggs" of parent[n]       *)
(* (0: a top-level aggregation).  The name of node n is n.                 *)
(***************************************************************************)
AggTypeNames ==
    {"terms", "histogram", "date_histogram", "range", "avg", "min", "max", "sum",
     "count", "stats", "percentiles"}

Children(req, n) == {c \in 1..req.n : req.parent[c] = n}

RECURSIVE ParseErrors(_, _)
\* parse_single_aggregation (200-242) on node n: the errors it may end
\* with, none when it returns Ok.  The type is parsed first, then the
\* sub-aggregations in the order of the map.
ParseErrors(req, n) ==
    IF req.kind[n] \notin AggTypeNames
    THEN {[msg |-> "Unknown aggregation type", kind |-> req.kind[n]]}
    ELSE UNION {ParseErrors(req, c) : c \in Children(req, n)}

\* parse_aggregation_requests (180-198).
parse_aggregation_requests(req) == UNION {ParseErrors(req, n) : n \in Children(req, 0)}

\* The build C6 rules out: sub-aggregations taken without a look at their
\* fields.
BuildSubErrorsNone(req, n) == {}

RECURSIVE BuildErrors(_, _)
\* build_sub_aggregations (471-483) on the sub-aggregations of node n.
BuildSubErrors(req, n) == UNION {BuildErrors(req, c) : c \in Children(req, n)}

\* build_single_tantivy_aggregation (343-469) on node n: the errors it may
\* end with, none when it returns Ok.  The field is looked up first, then
\* the sub-aggregations are built, in the iteration order of the HashMap:
\* any failing one may be met first.
BuildErrors(req, n) ==
    IF IsErr(GetField(req.field[n]))
    THEN {[msg |-> "Field not found in schema", field |-> req.field[n]]}
    ELSE BuildSubErrors(req, n)

RECURSIVE BuiltAggregation(_, _)
\* The Aggregation built for node n when nothing fails.
BuiltAggregation(req, n) ==
    [agg |-> [variant |-> req.kind[n], field |-> req.field[n]],
     sub_aggregation |-> {[name |-> c, aggregation |-> BuiltAggregation(req, c)] :
                            c \in Children(req, n)}]

\* build_tantivy_aggregations (329-341): the errors it may end with, and the
\* Aggregations it returns when there is none.
build_tantivy_aggregations(req) == UNION {BuildErrors(req, n) : n \in Children(req, 0)}

BuiltAggregations(req) ==
    {[name |-> n, aggregation |-> BuiltAggregation(req, n)] : n \in Children(req, 0)}

\* run_aggregations (61-96).  perr and berr: the error met first by the
\* parse and by the build, when there is one; searched: whether
\* Searcher::search returns Ok.  Every outcome is returned as Ok(string).
run_aggregations(req, perr, berr, searched) ==
    LET args == [aggregations |-> req]
    IN IF parse_aggregation_requests(req) # {}
       THEN /\ perr \in parse_aggregation_requests(req)
            /\ Return("run_aggregations", args, NoLocals,
                      Ok([text |-> "Error parsing aggregations", cause |-> perr]), <<>>)
       ELSE IF build_tantivy_aggregations(req) # {}
       THEN /\ berr \in build_tantivy_aggregations(req)
            /\ Return("run_aggregations", args, NoLocals,
                      Ok([text |-> "Error building aggregations", cause |-> berr]), <<>>)
       ELSE Return("run_aggregations", args, NoLocals,
                   IF searched THEN Ok([text |-> "result"])
                   ELSE Ok([text |-> "Error executing aggregations"]),
                   <<ESearch(BuiltAggregations(req))>>)

(***************************************************************************)
(* aggregation.rs: the projection of aggregation results and               *)
(* run_search_with_aggregations.  The result of a node is a metric or a    *)
(* list of buckets, each with its key, its doc_count and the named results *)
(* of the node's sub-aggregations.  A JSON object is a function of its     *)
(* keys.                                                                   *)
(***************************************************************************)
BucketKinds == {"terms", "histogram", "date_histogram", "range"}

RECURSIVE EngineResult(_, _, _)
\* What the collector returns for node n: nb buckets for a bucket
\* aggregation, one value for a metric.
EngineResult(req, n, nb) ==
    IF req.kind[n] \in BucketKinds
    THEN [variant |-> IF req.kind[n] = "terms" THEN "Terms"
                      ELSE IF req.kind[n] = "range" THEN "Range" ELSE "Histogram",
          buckets |-> [i \in 1..nb |->
                         [key |-> i, doc_count |-> i + 1,
                          sub_aggregation |->
                              {[name |-> req.name[c], node |-> c,
                                result |-> EngineResult(req, c, nb)] :
                                 c \in Children(req, n)}]]]
    ELSE [variant |-> "Metric", kind |-> req.kind[n]]

EngineResults(req, nb) ==
    {[name |-> req.name[n], node |-> n, result |-> EngineResult(req, n, nb)] :
       n \in Children(req, 0)}

\* convert_metric_result_to_json (622-691).
convert_metric_result_to_json(result) ==
    IF result.kind = "stats"
    THEN [count |-> JText("metric", "count"), min |-> JText("metric", "min"),
          max |-> JText("metric", "max"), avg |-> JText("metric", "avg"),
          sum |-> JText("metric", "sum")]
    ELSE IF result.kind = "percentiles" THEN [values |-> JText("metric", "values")]
    ELSE [value |-> JText("metric", result.kind)]

\* A bucket object with its sub-aggregations under a key of their own: what
\* the projection must not build.
BucketObjectNested(own, sub_aggs) ==
    [k \in DOMAIN own \cup {"sub_aggregations"} |->
        IF k = "sub_aggregations" THEN sub_aggs ELSE own[k]]

\* bucket_obj after the inserts of a bucket arm: the bucket's own keys, then
\* bucket_obj.insert(sub_name, sub_value) for every sub-aggregation.
BucketObject(own, sub_aggs) ==
    [k \in DOMAIN own \cup DOMAIN sub_aggs |->
        IF k \in DOMAIN sub_aggs THEN sub_aggs[k] ELSE own[k]]

\* requests.get(name): the request of a named result.
RequestGet(req, parent, name) == {c \in Children(req, parent) : req.name[c] = name}

RECURSIVE convert_agg_result_to_json(_, _, _)
\* convert_aggregation_result_to_json (485-499): the object of the named
\* results that have a request.
convert_aggregation_result_to_json(results, req, parent) ==
    LET found == {r \in results : RequestGet(req, parent, r.name) # {}}
    IN [k \in {r.name : r \in found} |->
           LET r == CHOOSE x \in found : x.name = k
           IN convert_agg_result_to_json(r.result, req, r.node)]

\* convert_agg_result_to_json (501-515) and convert_bucket_result_to_json
\* (517-620).
convert_agg_result_to_json(result, req, n) ==
    IF result.variant = "Metric" THEN convert_metric_result_to_json(result)
    ELSE LET own(b) ==
                 IF result.variant = "Range"
                 THEN [from |-> JNumber(VF64(b.key)), key |-> JNumber(VU64(b.key)),
                       doc_count |-> JNumber(VU64(b.doc_count))]
                 ELSE [key |-> JNumber(VU64(b.key)),
                       doc_count |-> JNumber(VU64(b.doc_count))]
             bucket_obj(b) ==
                 BucketObject(own(b),
                              convert_aggregation_result_to_json(b.sub_aggregation, req, n))
             buckets_json == [i \in 1..Len(result.buckets) |-> bucket_obj(result.buckets[i])]
         IN IF result.variant = "Terms"
            THEN [doc_count_error_upper_bound |-> JNumber(VU64(0)),
                  sum_other_doc_count |-> JNumber(VU64(0)),
                  buckets |-> buckets_json]
            ELSE [buckets |-> buckets_json]

\* run_search_with_aggregations (99-178).  indexed: what the hits were
\* built from; nb: the number of buckets of every bucket result.
run_search_with_aggregations(indexed, req, perr, berr, nb, searched) ==
    LET args == [indexed |-> indexed, aggregations |-> req]
        docs == StoredDocs(indexed)
        agg_result == EngineResults(req, nb)
    IN IF parse_aggregation_requests(req) # {}
       THEN /\ perr \in parse_aggregation_requests(req)
            /\ Return("run_search_with_aggregations", args, NoLocals,
                      Ok([text |-> "Error parsing aggregations", cause |-> perr]), <<>>)
       ELSE IF build_tantivy_aggregations(req) # {}
       THEN /\ berr \in build_tantivy_aggregations(req)
            /\ Return("run_search_with_aggregations", args, NoLocals,
                      Ok([text |-> "Error building aggregations", cause |-> berr]), <<>>)
       ELSE IF ~searched
       THEN Return("run_search_with_aggregations", args, NoLocals,
                   Ok([text |-> "Error executing search with aggregations"]),
                   <<ESearch(BuiltAggregations(req))>>)
       ELSE Return("run_search_with_aggregations", args,
                   [docs |-> docs, agg_result |-> agg_result],
                   Ok([text |-> "result",
                       hits |-> [n \in 1..Len(docs) |-> AggregationHit(docs[n])],
                       aggregations |-> convert_aggregation_result_to_json(agg_result, req, 0)]),
                   <<ESearch(BuiltAggregations(req))>>)

(***************************************************************************)
(* The values the caller passes.                                           *)
(***************************************************************************)
StrSamples ==
    { <<>>, <<" ">>, <<"a", "b">>, <<"Q", "a">>, <<"Q", "a", " ", "F", "b">>,
      <<" ", "Q", "a", " ">>, <<"q", "a", "\t", "f", "b", " ", "a", "b">>,
      <<"5">>, <<"-", "1">>, <<"9", "9">>, <<"'", "5", "'">>, <<" ", "5", " ">>,
      <<"1", ".", "5">>, <<"t", "r", "u", "e">>, <<"Y">>, <<"N", "o">>,
      <<"/", "a", "/", "b">>, <<"a", "/", "b">>, <<"Q", "Q", "=", "=">>, <<"Q">>,
      <<"1", ".", "2", ".", "3", ".", "4">>, <<":", ":", "1">>, <<"{", "}">>,
      <<"1", "9", "7", "0", "-", "0", "1", "-", "0", "1", "T",
        "0", "0", ":", "0", "0", ":", "0", "5", "Z">> }

IntSamples == {MinI64 - 1, MinI64, 0 - 1, 0, 5, MaxI64, MaxI64 + 1, MaxU64, MaxU64 + 1}

TermSamples ==
    {TStr(cs) : cs \in StrSamples}
    \cup {TInt(n) : n \in IntSamples}
    \cup {TFloat(3), TFloat(0 - 4), TBool(TRUE), TBool(FALSE), TAtom("nil"),
          TList(<<>>), TList(<<TInt(1), TInt(MaxU8)>>), TList(<<TInt(MaxU8 + 1)>>),
          TList(<<TStr(<<"/", "a">>), TStr(<<"b">>), TInt(1), TStr(<<"/", "b">>)>>),
          TList(<<TStr(<<"/", "a">>), TStr(<<"/", "b">>)>>),
          TMap(<<KV("k", TInt(1)), KV("l", TList(<<TBool(TRUE)>>))>>)}

\* The names the caller gives: the fields of the schema and one that is none.
NameSamples == FieldNames \cup {"nope"}

\* Key/value pairs of documents with several keys.
PairSamples ==
    { KV("body", TStr(<<"a", "b">>)), KV("count", TInt(0 - 1)), KV("count", TInt(5)),
      KV("flag", TStr(<<"a", "b">>)), KV("ts", TStr(<<"a", "b">>)), KV("nope", TInt(1)) }

\* Documents: every single-key map, the two-key maps of PairSamples in both
\* iteration orders, the empty map, and terms that are no map.
DocSamples ==
    {TMap(<<KV(k, v)>>) : k \in NameSamples, v \in TermSamples}
    \cup {TMap(<<pq[1], pq[2]>>) : pq \in {x \in PairSamples \X PairSamples : x[1].k # x[2].k}}
    \cup {TMap(<<>>), TInt(1), TList(<<>>), TStr(<<"a", "b">>)}

\* The documents of batches.
BatchDocSamples ==
    { TMap(<<KV("body", TStr(<<"a", "b">>))>>),
      TMap(<<KV("count", TInt(0 - 1))>>),
      TMap(<<KV("count", TInt(0 - 1)), KV("flag", TStr(<<"a", "b">>))>>),
      TMap(<<KV("flag", TStr(<<"a", "b">>)), KV("count", TInt(0 - 1))>>),
      TMap(<<KV("body", TStr(<<"Q", "a">>)), KV("ts", TStr(<<"a", "b">>))>>),
      TMap(<<KV("nope", TInt(1))>>),
      TInt(1) }

BatchSamples == UNION {[1..n -> BatchDocSamples] : n \in 0..MaxBatch}

WordSamples == {<<"q", "a">>, <<"F", "b">>}

PhraseSamples == UNION {[1..n -> WordSamples] : n \in 0..2}

OptSamples == {None, Some(0), Some(5)}

PatternSamples ==
    { <<"a", "*">>, <<"a", "?", "b">>, <<"(", "a", "*">>, <<"(", "a", "?">>,
      <<"*", "a">>, <<"a", ".", "*">>, <<"(", "a">>, <<"a", ".">>, <<>> }

PathSamples == {<<"/", "a", "/", "b">>, <<"/", "b">>, <<"a", "/", "b">>, <<"/">>}

PathListSamples == UNION {[1..n -> PathSamples] : n \in 0..MaxPaths}

\* Aggregation requests of at most MaxAggNodes nodes.
AggFieldSamples == {"price", "nope", "gone"}

\* The type names of the nodes: all known, or one node's unknown.
AggKindSamples(n) ==
    {[c \in 1..n |-> IF c = bad THEN "bogus" ELSE IF c = n THEN "avg" ELSE "terms"] :
       bad \in 0..n}

AggSamples ==
    UNION { { [n |-> n, parent |-> pa, field |-> fi, kind |-> ki] :
                pa \in {f \in [1..n -> 0..n] : \A c \in 1..n : f[c] < c},
                fi \in [1..n -> AggFieldSamples],
                ki \in AggKindSamples(n) } : n \in 0..MaxAggNodes }

\* What the hits of a search were built from: nothing, or one value of one
\* field that add_field_to_document accepts.
IndexedSamples ==
    {<<>>} \cup {<<[field_name |-> fv[1], value |-> (fv[2])] >> :
                   fv \in {x \in FieldNames \X TermSamples : IsOk(StoredDocument(x[1], x[2]))}}

NodeNames == <<"a", "b", "c", "d">>

MaxBuckets == 2

\* The requests of run_search_with_aggregations: every forest of up to
\* MaxAggNodes nodes, the nodes with sub-aggregations of one bucket kind, the
\* others of one kind, at most one node named like a key of a bucket, and
\* at most one defect (an unknown type, an absent field) in the last node.
HitAggSamples ==
    UNION { { [n |-> n, parent |-> pa,
               field |-> [c \in 1..n |-> IF c = n /\ bad = "field" THEN "nope" ELSE "price"],
               kind |-> [c \in 1..n |->
                           IF c = n /\ bad = "kind" THEN "bogus"
                           ELSE IF \E d \in 1..n : pa[d] = c THEN bk ELSE lk],
               name |-> [c \in 1..n |-> IF c = special THEN nm ELSE NodeNames[c]]] :
                pa \in {f \in [1..n -> 0..n] : \A c \in 1..n : f[c] < c},
                bk \in {"terms", "histogram", "range"},
                lk \in {"avg", "stats", "terms"},
                special \in 0..n, nm \in {"key", "doc_count"},
                bad \in {"none", "kind", "field"} } : n \in 0..MaxAggNodes }

HitCallSamples ==
    ({<<>>} \X HitAggSamples) \cup (IndexedSamples \X {r \in HitAggSamples : r.n = 0})

(***************************************************************************)
(* The calls.  accepted, refused and searched are the engine's answers.    *)
(***************************************************************************)
NoCall == [op |-> "none"]

\* The callers of the NIFs of one writer.
Callers == {"p1", "p2"}

\* A caller that is in no NIF.
Idle == [op |-> "none", at |-> "idle", arg |-> <<>>, start |-> 0, epoch |-> 0]

\* A caller that is in no NIF of a shared resource.
NoFrame == [op |-> "none", arg |-> "none", step |-> 0]

\* No resource is shared.
NoResource == [none |-> TRUE]

\* The state before any call, with the resource the callers share.
InitWith(shared) ==
    /\ nif = NoCall
    /\ ret = NoCall
    /\ engine = <<>>
    /\ pc = [p \in Callers |-> Idle]
    /\ mutex = "free"
    /\ pending = <<>>
    /\ committed = {}
    /\ searchers = <<>>
    /\ discarded = {}
    /\ commit_log = <<>>
    /\ added = 0
    /\ ncalls = 0
    /\ frame = [p \in Callers |-> NoFrame]
    /\ guards = [p \in Callers |-> {}]
    /\ resource = shared

Init == InitWith(NoResource)

WriterAddDocument ==
    /\ nif = NoCall
    /\ \E document \in DocSamples, accepted \in BOOLEAN :
           writer_add_document(document, accepted)

WriterAddDocumentWithSchema ==
    /\ nif = NoCall
    /\ \E document \in DocSamples, accepted \in BOOLEAN :
           writer_add_document_with_schema(document, accepted)

WriterAddDocumentBatch ==
    /\ nif = NoCall
    /\ \E documents \in BatchSamples :
           \E refused \in SUBSET (0..(Len(documents) - 1)) :
               writer_add_document_batch(documents, refused)

ValidateDocumentAgainstSchema ==
    /\ nif = NoCall
    /\ \E document \in DocSamples : validate_document_against_schema(document)

WriterDeleteTerm ==
    /\ nif = NoCall
    /\ \E term_field \in NameSamples, term_value \in TermSamples, accepted \in BOOLEAN :
           writer_delete_term(term_field, term_value, accepted)

QueryTerm ==
    /\ nif = NoCall
    /\ \E field_name \in NameSamples, term_value \in StrSamples :
           QueryNif("query_term", [field_name |-> field_name, term_value |-> term_value],
                    query_term(field_name, term_value))

QueryPhrase ==
    /\ nif = NoCall
    /\ \E field_name \in NameSamples, phrase_terms \in PhraseSamples :
           QueryNif("query_phrase", [field_name |-> field_name, phrase_terms |-> phrase_terms],
                    query_phrase(field_name, phrase_terms))

QueryRange ==
    /\ nif = NoCall
    /\ \E variant \in {"U64", "I64", "F64"}, field_name \in NameSamples,
          start \in OptSamples, end \in OptSamples :
           QueryNif("query_range",
                    [variant |-> variant, field_name |-> field_name, start |-> start, end |-> end],
                    query_range(variant, field_name, start, end))

QueryFuzzy ==
    /\ nif = NoCall
    /\ \E field_name \in NameSamples, term_value \in {<<"a", "b">>, <<"Q", "a">>},
          distance \in {1, 2}, prefix \in BOOLEAN :
           QueryNif("query_fuzzy",
                    [field_name |-> field_name, term_value |-> term_value,
                     distance |-> distance, prefix |-> prefix],
                    query_fuzzy(field_name, term_value, distance, prefix))

QueryRegex ==
    /\ nif = NoCall
    /\ \E field_name \in NameSamples, pattern \in PatternSamples :
           QueryNif("query_regex", [field_name |-> field_name, pattern |-> pattern],
                    query_regex(field_name, pattern))

QueryWildcard ==
    /\ nif = NoCall
    /\ \E field_name \in NameSamples, pattern \in PatternSamples :
           QueryNif("query_wildcard", [field_name |-> field_name, pattern |-> pattern],
                    query_wildcard(field_name, pattern))

LibQueryWildcard ==
    /\ nif = NoCall
    /\ \E field_name \in NameSamples, pattern \in PatternSamples :
           QueryNif("lib.query_wildcard", [field_name |-> field_name, pattern |-> pattern],
                    lib_query_wildcard(field_name, pattern))

QueryPhrasePrefix ==
    /\ nif = NoCall
    /\ \E field_name \in NameSamples, phrase_terms \in PhraseSamples, max_expansions \in {1, 50} :
           QueryNif("query_phrase_prefix",
                    [field_name |-> field_name, phrase_terms |-> phrase_terms,
                     max_expansions |-> max_expansions],
                    query_phrase_prefix(field_name, phrase_terms, max_expansions))

QueryExists ==
    /\ nif = NoCall
    /\ \E field_name \in NameSamples :
           QueryNif("query_exists", [field_name |-> field_name], query_exists(field_name))

QueryFacetTermQuery ==
    /\ nif = NoCall
    /\ \E field_name \in NameSamples, facet_path \in PathSamples :
           QueryNif("query.facet_term_query", [field_name |-> field_name, facet_path |-> facet_path],
                    query_facet_term_query(field_name, facet_path))

FacetTermQuery ==
    /\ nif = NoCall
    /\ \E field_name \in NameSamples, facet_path \in PathSamples :
           QueryNif("facet_term_query", [field_name |-> field_name, facet_path |-> facet_path],
                    facet_term_query(field_name, facet_path))

FacetMultiQuery ==
    /\ nif = NoCall
    /\ \E field_name \in NameSamples, facet_paths \in PathListSamples,
          occur_str \in {"must", "should", "any"} :
           QueryNif("facet_multi_query",
                    [field_name |-> field_name, facet_paths |-> facet_paths,
                     occur_str |-> occur_str],
                    facet_multi_query(field_name, facet_paths, occur_str))

NoError == [msg |-> "none"]

RunAggregations ==
    /\ nif = NoCall
    /\ \E req \in AggSamples, searched \in BOOLEAN :
           LET perrs == parse_aggregation_requests(req)
               berrs == IF perrs = {} THEN build_tantivy_aggregations(req) ELSE {}
           IN \E perr \in (IF perrs = {} THEN {NoError} ELSE perrs),
                 berr \in (IF berrs = {} THEN {NoError} ELSE berrs) :
                  run_aggregations(req, perr, berr, searched)

SearcherSearchWithQuery ==
    /\ nif = NoCall
    /\ \E indexed \in IndexedSamples, include_docs \in BOOLEAN, searched \in BOOLEAN :
           searcher_search_with_query(indexed, include_docs, searched)

\* The hits vary with the empty request, the requests with no hit.
RunSearchWithAggregations ==
    /\ nif = NoCall
    /\ \E call \in HitCallSamples, nb \in 0..MaxBuckets, searched \in BOOLEAN :
           LET indexed == call[1]
               req == call[2]
               perrs == parse_aggregation_requests(req)
               berrs == IF perrs = {} THEN build_tantivy_aggregations(req) ELSE {}
           IN \E perr \in (IF perrs = {} THEN {NoError} ELSE perrs),
                 berr \in (IF berrs = {} THEN {NoError} ELSE berrs) :
                  run_search_with_aggregations(indexed, req, perr, berr, nb, searched)

(***************************************************************************)
(* schema.rs: schema_builder_new and the schema_add_*_field family.        *)
(* A schema is the sequence of its field entries; the id of a field is its *)
(* position.                                                               *)
(***************************************************************************)
\* TextFieldIndexing: the tokenizer and the record option of an indexed
\* text field.
TextFieldIndexing(tokenizer, record) == [tokenizer |-> tokenizer, record |-> record]

\* A field that is not indexed, and an indexed field that is no text field.
NoIndexing == TextFieldIndexing("none", "none")

PlainIndexing == TextFieldIndexing("none", "indexed")

\* The options of a field entry.
FieldOptions(indexing, stored, fast) ==
    [indexing |-> indexing, stored |-> stored, fast |-> fast]

\* schema_add_text_field, the match on the options string.
text_field_options(options) ==
    CASE options = "TEXT_STORED" ->
             FieldOptions(TextFieldIndexing("default", "Basic"), TRUE, FALSE)
      [] options = "TEXT" ->
             FieldOptions(TextFieldIndexing("default", "Basic"), FALSE, FALSE)
      [] options = "STORED" -> FieldOptions(NoIndexing, TRUE, FALSE)
      [] options = "FAST" ->
             FieldOptions(TextFieldIndexing("default", "Basic"), FALSE, TRUE)
      [] options = "FAST_STORED" ->
             FieldOptions(TextFieldIndexing("default", "WithFreqsAndPositions"),
                          TRUE, TRUE)
      [] OTHER -> FieldOptions(TextFieldIndexing("default", "Basic"), FALSE, FALSE)

\* schema_add_text_field_with_tokenizer, the match on the options string.
tokenizer_field_options(options, tokenizer) ==
    CASE options = "TEXT_STORED" ->
             FieldOptions(TextFieldIndexing(tokenizer, "Basic"), TRUE, FALSE)
      [] options = "STORED" -> FieldOptions(NoIndexing, TRUE, FALSE)
      [] OTHER -> FieldOptions(TextFieldIndexing(tokenizer, "Basic"), FALSE, FALSE)

\* schema_add_u64_field and the other fields with numeric options (i64,
\* f64, bool, date, ip_addr), and bytes, whose default is stored.
numeric_field_options(options, type) ==
    CASE options = "INDEXED_STORED" -> FieldOptions(PlainIndexing, TRUE, FALSE)
      [] options = "INDEXED" -> FieldOptions(PlainIndexing, FALSE, FALSE)
      [] options = "STORED" -> FieldOptions(NoIndexing, TRUE, FALSE)
      [] options = "FAST" -> FieldOptions(NoIndexing, FALSE, TRUE)
      [] options = "FAST_STORED" -> FieldOptions(NoIndexing, TRUE, TRUE)
      [] OTHER -> IF type = "Bytes" THEN FieldOptions(NoIndexing, TRUE, FALSE)
                  ELSE FieldOptions(PlainIndexing, FALSE, FALSE)

\* schema_add_json_field, the match on the options string.
json_field_options(options) ==
    IF options = "STORED" THEN FieldOptions(NoIndexing, TRUE, FALSE)
    ELSE FieldOptions(NoIndexing, FALSE, FALSE)

\* The schema_add_*_field functions, by the suffix of their name, and the
\* field type each of them adds.
AddFieldKinds ==
    [text |-> "Str", text_with_tokenizer |-> "Str", u64 |-> "U64",
     i64 |-> "I64", f64 |-> "F64", bool |-> "Bool", date |-> "Date",
     facet |-> "Facet", bytes |-> "Bytes", json |-> "JsonObject",
     ip_addr |-> "IpAddr"]

\* let field_options = ... of the schema_add_<kind>_field function.
field_options(kind, options, tokenizer) ==
    CASE kind = "text" -> text_field_options(options)
      [] kind = "text_with_tokenizer" -> tokenizer_field_options(options, tokenizer)
      [] kind = "facet" -> FieldOptions(NoIndexing, FALSE, FALSE)
      [] kind = "json" -> json_field_options(options)
      [] OTHER -> numeric_field_options(options, AddFieldKinds[kind])

SchemaFieldEntry(name, type, options) ==
    [name |-> name, type |-> type, options |-> options]

\* Schema::builder(): a builder is the sequence of the entries added so
\* far, or the panic that ended the building.
SchemaBuilder == Ok(<<>>)

\* SchemaBuilder::add_*_field: the entry takes the next field id; the
\* builder panics on a name it already holds.
SchemaBuilderAddField(builder, name, type, options) ==
    IF IsPanic(builder) THEN builder
    ELSE IF \E j \in 1..Len(builder.val) : builder.val[j].name = name
    THEN Panic(<<"Field already exists in schema", name>>)
    ELSE Ok(Append(builder.val, SchemaFieldEntry(name, type, options)))

RECURSIVE CopyDefaultOptions(_, _)
\* A copy that keeps the names and types of the fields and not their options.
CopyDefaultOptions(schema, schema_builder) ==
    IF schema = <<>> THEN schema_builder
    ELSE CopyDefaultOptions(Tail(schema),
             SchemaBuilderAddField(schema_builder, Head(schema).name,
                 Head(schema).type, FieldOptions(NoIndexing, FALSE, FALSE)))

RECURSIVE copy_existing_fields_to_builder(_, _)
\* for (field, field_entry) in schema.fields(): every arm of the match adds
\* a field of the same type under the same name with a clone of its options.
copy_existing_fields_to_builder(schema, schema_builder) ==
    IF schema = <<>> THEN schema_builder
    ELSE copy_existing_fields_to_builder(Tail(schema),
             SchemaBuilderAddField(schema_builder, Head(schema).name,
                 Head(schema).type, Head(schema).options))

\* schema_builder_new: Schema::builder().build().
schema_builder_new == SchemaBuilder.val

\* schema_add_<kind>_field(schema_res, field_name, options): the schema of
\* schema_res is only read; a panic of the builder unwinds out of the NIF.
schema_add_field(kind, schema_res, field_name, options, tokenizer) ==
    LET copied == copy_existing_fields_to_builder(schema_res, SchemaBuilder)
        schema == SchemaBuilderAddField(copied, field_name, AddFieldKinds[kind],
                                        field_options(kind, options, tokenizer))
    IN Return("schema_add_field",
              [kind |-> kind, schema_res |-> schema_res,
               field_name |-> field_name, options |-> options],
              [schema_res |-> schema_res],
              schema,
              <<>>)

SchemaFieldNames == {"a", "b", "c"}

OptionSamples == {"TEXT_STORED", "INDEXED", "STORED", "FAST_STORED", "x"}

TokenizerSamples == {"raw", "en_stem"}

\* The field entries the functions above create.
EntrySamples(kinds, names, opts) ==
    {SchemaFieldEntry(n, AddFieldKinds[k], field_options(k, o, "raw")) :
        k \in kinds, n \in names, o \in opts}

\* Schemas the functions above build from schema_builder_new: the empty
\* schema, schemas of one field and schemas of two fields of distinct names.
SchemaSamples ==
    {schema_builder_new}
    \cup {<<e>> : e \in EntrySamples(DOMAIN AddFieldKinds, {"a", "b"},
                                      {"STORED", "FAST_STORED"})}
    \cup {<<p[1], p[2]>> :
            p \in {q \in EntrySamples({"text_with_tokenizer", "u64"}, {"a", "b"},
                                      {"TEXT_STORED", "FAST"})
                         \X EntrySamples({"facet", "json"}, {"a", "b"},
                                         {"STORED", "x"}) :
                     q[1].name # q[2].name}}

SchemaAddField ==
    /\ nif = NoCall
    /\ \E kind \in DOMAIN AddFieldKinds, schema_res \in SchemaSamples,
          field_name \in SchemaFieldNames, options \in OptionSamples,
          tokenizer \in TokenizerSamples :
           /\ kind # "text_with_tokenizer" => tokenizer = "raw"
           /\ schema_add_field(kind, schema_res, field_name, options, tokenizer)

(***************************************************************************)
(* tokenizer.rs: register_text_analyzer and parse_language.                *)
(***************************************************************************)
\* str::to_lowercase on the language strings the model uses.
LanguageToLowercase(lang) ==
    CASE lang = "EN" -> "en" [] lang = "English" -> "english"
      [] lang = "Arabic" -> "arabic" [] OTHER -> lang

\* parse_language: the match on the lower-cased string.
parse_language(lang) ==
    LET l == LanguageToLowercase(lang)
    IN CASE l \in {"en", "english"} -> Some("English")
         [] l \in {"fr", "french"} -> Some("French")
         [] l \in {"de", "german"} -> Some("German")
         [] l \in {"es", "spanish"} -> Some("Spanish")
         [] l \in {"it", "italian"} -> Some("Italian")
         [] l \in {"pt", "portuguese"} -> Some("Portuguese")
         [] l \in {"ru", "russian"} -> Some("Russian")
         [] l \in {"ar", "arabic"} -> Some("Arabic")
         [] l \in {"da", "danish"} -> Some("Danish")
         [] l \in {"nl", "dutch"} -> Some("Dutch")
         [] l \in {"fi", "finnish"} -> Some("Finnish")
         [] l \in {"el", "greek"} -> Some("Greek")
         [] l \in {"hu", "hungarian"} -> Some("Hungarian")
         [] l \in {"no", "norwegian"} -> Some("Norwegian")
         [] l \in {"ro", "romanian"} -> Some("Romanian")
         [] l \in {"sv", "swedish"} -> Some("Swedish")
         [] l \in {"ta", "tamil"} -> Some("Tamil")
         [] l \in {"tr", "turkish"} -> Some("Turkish")
         [] OTHER -> None

\* StopWordFilter::new(language): None for a language the engine has no
\* list of stop words for.
StopWordFilterNew(language) ==
    IF language \in {"Danish", "Dutch", "English", "Finnish", "French", "German",
                     "Hungarian", "Italian", "Norwegian", "Portuguese", "Russian",
                     "Spanish", "Swedish"}
    THEN Some([filter |-> "StopWordFilter", language |-> language])
    ELSE None


\* StopWordFilter::new(stop_language).unwrap()
StopWordFilterUnwrap(language) ==
    IF StopWordFilterNew(language).some THEN Ok(StopWordFilterNew(language).x)
    ELSE Panic("called Option::unwrap() on a None value")

\* The arm of a base tokenizer (simple 146-257, whitespace 258-382): the
\* filters in the order LowerCaser, StopWordFilter, Stemmer,
\* RemoveLongFilter, each when it is asked for.
AnalyzerFilters(lowercase, stop_words_language, stemming_language, remove_long_threshold) ==
    LET stop == IF stop_words_language.some
                THEN StopWordFilterUnwrap(parse_language(stop_words_language.x).x)
                ELSE Ok("none")
        one(cond, f) == IF cond THEN <<f>> ELSE <<>>
    IN IF ~stop.ok THEN stop
       ELSE Ok(one(lowercase, [filter |-> "LowerCaser", language |-> "none"])
               \o one(stop_words_language.some, stop.val)
               \o one(stemming_language.some,
                      [filter |-> "Stemmer",
                       language |-> IF stemming_language.some
                                    THEN parse_language(stemming_language.x).x
                                    ELSE "none"])
               \o one(remove_long_threshold.some,
                      [filter |-> "RemoveLongFilter", language |-> "none"]))

\* register_tokenizer_with_tracking: the manager holds the analyzer under
\* the name and the registry holds the name.
register_tokenizer_with_tracking(tokenizers, name, tokenizer) ==
    [manager |-> [n \in DOMAIN tokenizers.manager \cup {name} |->
                     IF n = name THEN tokenizer ELSE tokenizers.manager[n]],
     registry |-> tokenizers.registry \cup {name}]

\* register_text_analyzer.  tokenizers: GLOBAL_TOKENIZER_MANAGER and
\* TOKENIZER_REGISTRY before the call; the locals keep them as they are
\* after it.
register_text_analyzer(tokenizers, name, base_tokenizer, lowercase, stop_words_language, stemming_language, remove_long_threshold) ==
    LET args == [tokenizers |-> tokenizers, name |-> name,
                 base_tokenizer |-> base_tokenizer, lowercase |-> lowercase,
                 stop_words_language |-> stop_words_language,
                 stemming_language |-> stemming_language]
        filters == AnalyzerFilters(lowercase, stop_words_language, stemming_language,
                                   remove_long_threshold)
        unchanged(result) ==
            Return("register_text_analyzer", args, [tokenizers |-> tokenizers],
                   result, <<>>)
    IN IF stop_words_language.some /\ ~parse_language(stop_words_language.x).some
       THEN unchanged(Err([msg |-> "Unsupported stop words language",
                           value |-> stop_words_language.x]))
       ELSE IF stemming_language.some /\ ~parse_language(stemming_language.x).some
       THEN unchanged(Err([msg |-> "Unsupported stemming language",
                           value |-> stemming_language.x]))
       ELSE IF base_tokenizer \notin {"simple", "whitespace"}
       THEN unchanged(Err([msg |-> "Unsupported base tokenizer",
                           value |-> base_tokenizer]))
       ELSE IF ~filters.ok THEN unchanged(filters)
       ELSE Return("register_text_analyzer", args,
                   [tokenizers |->
                       register_tokenizer_with_tracking(tokenizers, name,
                           [base |-> base_tokenizer, filters |-> filters.val])],
                   Ok("registered"), <<>>)

\* The language strings a caller gives: every code parse_language knows,
\* some names and spellings, and one it does not know.
LanguageSamples ==
    {"en", "fr", "de", "es", "it", "pt", "ru", "ar", "da", "nl", "fi", "el", "hu",
     "no", "ro", "sv", "ta", "tr", "EN", "English", "Arabic", "turkish", "xx"}

\* The tokenizers registered before the call: none, or one under the name
\* the call gives.
TokenizersSamples ==
    {[manager |-> << >>, registry |-> {}],
     [manager |-> [n \in {"t"} |-> [base |-> "simple", filters |-> << >>]],
      registry |-> {"t"}]}

RegisterTextAnalyzer ==
    /\ nif = NoCall
    /\ \E tokenizers \in TokenizersSamples,
          base_tokenizer \in {"simple", "whitespace", "ngram"},
          lowercase \in BOOLEAN,
          stop_words_language \in {None} \cup {Some(l) : l \in LanguageSamples},
          stemming_language \in {None, Some("en"), Some("ar"), Some("xx")},
          remove_long_threshold \in {None, Some(40)} :
           register_text_analyzer(tokenizers, "t", base_tokenizer, lowercase,
                                  stop_words_language, stemming_language,
                                  remove_long_threshold)

Next ==
    \/ WriterAddDocument
    \/ WriterAddDocumentWithSchema
    \/ WriterAddDocumentBatch
    \/ ValidateDocumentAgainstSchema
    \/ WriterDeleteTerm
    \/ QueryTerm
    \/ QueryPhrase
    \/ QueryRange
    \/ QueryFuzzy
    \/ QueryRegex
    \/ QueryWildcard
    \/ LibQueryWildcard
    \/ QueryPhrasePrefix
    \/ QueryExists
    \/ QueryFacetTermQuery
    \/ FacetTermQuery
    \/ FacetMultiQuery
    \/ RunAggregations
    \/ SearcherSearchWithQuery
    \/ RunSearchWithAggregations
    \/ SchemaAddField
    \/ RegisterTextAnalyzer

Spec == Init /\ [][Next]_vars

(***************************************************************************)
(* One index, its one IndexWriterResource and the callers that use it      *)
(* concurrently.  document.rs: writer_add_document,                        *)
(* writer_add_document_batch, writer_delete_term, writer_delete_documents, *)
(* writer_delete_all_documents, writer_commit, writer_rollback;            *)
(* merge_policy.rs: index_writer_merge_segments; index.rs: index_reader.   *)
(* Every writer NIF starts with writer_res.writer.lock().unwrap() and      *)
(* keeps the guard until it returns.                                       *)
(***************************************************************************)
MaxDocs == 2

MaxCalls == 3

MaxSearchers == 1

WriterOps ==
    {"writer_add_document", "writer_add_document_batch", "writer_delete_term",
     "writer_delete_documents", "writer_delete_all_documents", "writer_commit",
     "writer_rollback", "index_writer_merge_segments"}

\* The positions at which a caller holds the guard of the writer.
InCriticalSection == {"held", "return"}

\* An operation queued in the writer: an added document, or a delete of
\* the document doc (0: of all documents).
WriterOp(kind, doc, by) == [kind |-> kind, doc |-> doc, by |-> by]

RECURSIVE ApplyOps(_, _)
\* IndexWriter::commit: the queued operations take effect in their order;
\* a delete reaches the documents added before it.
ApplyOps(docs, ops) ==
    IF ops = <<>> THEN docs
    ELSE LET o == Head(ops)
         IN ApplyOps(CASE o.kind = "add" -> docs \cup {o.doc}
                       [] o.kind = "delete" -> docs \ {o.doc}
                       [] OTHER -> {},
                     Tail(ops))

\* The documents added and not yet committed.
PendingDocs == {pending[j].doc : j \in {k \in 1..Len(pending) : pending[k].kind = "add"}}

\* The arguments of a call: the documents of a batch as valid or not, the
\* document a delete names, whether the field or the segment ids resolve.
CallArgs(op) ==
    CASE op = "writer_add_document" -> {<<v>> : v \in BOOLEAN}
      [] op = "writer_add_document_batch" ->
             {[j \in 1..n |-> TRUE] : n \in 1..MaxBatch}
             \cup {[j \in 1..MaxBatch |-> j # 1]}
      [] op = "writer_delete_term" ->
             {<<d, TRUE>> : d \in 1..MaxDocs} \cup {<<1, FALSE>>}
      [] op = "writer_delete_documents" -> {<<d>> : d \in 1..MaxDocs}
      [] op = "index_writer_merge_segments" -> {<<v>> : v \in BOOLEAN}
      [] OTHER -> {<<>>}

\* A caller enters a writer NIF and reaches writer_res.writer.lock().
Call(p) ==
    /\ pc[p].at = "idle"
    /\ ncalls < MaxCalls
    /\ \E op \in WriterOps : \E arg \in CallArgs(op) :
           pc' = [pc EXCEPT ![p] = [Idle EXCEPT !.op = op, !.at = "lock", !.arg = arg]]
    /\ ncalls' = ncalls + 1
    /\ UNCHANGED <<mutex, pending, committed, searchers, discarded, commit_log,
                   added, nif, ret, engine, shared_vars>>

\* A lock that does not wait for the guard to be dropped.
LockNoWait(p) == TRUE

\* Mutex::lock: blocks while another caller holds the guard.
MutexLock(p) == mutex = "free"

\* let writer = writer_res.writer.lock().unwrap();
Lock(p) ==
    /\ pc[p].at = "lock"
    /\ MutexLock(p)
    /\ mutex' = p
    /\ pc' = IF pc[p].op = "writer_add_document_batch"
             THEN [pc EXCEPT ![p].at = "held", ![p].start = Len(pending),
                             ![p].epoch = Len(commit_log) + Cardinality(discarded)]
             ELSE [pc EXCEPT ![p].at = "held"]
    /\ UNCHANGED <<pending, committed, searchers, discarded, commit_log, added,
                   ncalls, nif, ret, engine, shared_vars>>

\* The operations a call queues in the writer: one add for each valid
\* document (while the index takes documents), one delete.
Queued(p, op, arg, n) ==
    CASE op = "writer_add_document" ->
             IF arg[1] /\ n < MaxDocs THEN <<WriterOp("add", n + 1, p)>> ELSE <<>>
      [] op = "writer_delete_term" ->
             IF arg[2] THEN <<WriterOp("delete", arg[1], p)>> ELSE <<>>
      [] op = "writer_delete_documents" -> <<WriterOp("delete", arg[1], p)>>
      [] op = "writer_delete_all_documents" -> <<WriterOp("delete_all", 0, p)>>
      [] OTHER -> <<>>

\* The body of a writer NIF other than the batch add, under the guard: its
\* one call on the writer.
Body(p) ==
    /\ pc[p].at = "held"
    /\ pc[p].op # "writer_add_document_batch"
    /\ LET op == pc[p].op
           q == Queued(p, op, pc[p].arg, added)
       IN /\ pending' = CASE op = "writer_commit" -> <<>>
                          [] op = "writer_rollback" -> <<>>
                          [] OTHER -> pending \o q
          /\ committed' = IF op = "writer_commit" THEN ApplyOps(committed, pending)
                          ELSE committed
          /\ commit_log' = IF op = "writer_commit"
                           THEN Append(commit_log, ApplyOps(committed, pending))
                           ELSE commit_log
          /\ discarded' = IF op = "writer_rollback" THEN discarded \cup PendingDocs
                          ELSE discarded
          /\ added' = added + Len(SelectSeq(q, LAMBDA o : o.kind = "add"))
    /\ pc' = [pc EXCEPT ![p].at = "return"]
    /\ UNCHANGED <<mutex, searchers, ncalls, nif, ret, engine, shared_vars>>

\* One round of the loop of writer_add_document_batch: a valid document is
\* handed to writer.add_document, an invalid one is counted as an error.
BatchRound(p) ==
    /\ pc[p].at = "held"
    /\ pc[p].op = "writer_add_document_batch"
    /\ LET valid == Head(pc[p].arg) /\ added < MaxDocs
       IN /\ pending' = IF valid THEN Append(pending, WriterOp("add", added + 1, p))
                        ELSE pending
          /\ added' = IF valid THEN added + 1 ELSE added
    /\ pc' = [pc EXCEPT ![p].arg = Tail(@),
                        ![p].at = IF Len(pc[p].arg) = 1 THEN "return" ELSE "held"]
    /\ UNCHANGED <<mutex, committed, searchers, discarded, commit_log, ncalls,
                   nif, ret, engine, shared_vars>>

\* The NIF returns and the guard is dropped.
Unlock(p) ==
    /\ pc[p].at = "return"
    /\ mutex' = IF mutex = p THEN "free" ELSE mutex
    /\ pc' = [pc EXCEPT ![p] = Idle]
    /\ UNCHANGED <<pending, committed, searchers, discarded, commit_log, added,
                   ncalls, nif, ret, engine, shared_vars>>

\* A reader that would load the queued operations with the committed ones.
ReaderLoadsPending == ApplyOps(committed, pending)

\* index.reader(): the reader loads the segments of the last commit.
ReaderLoad == committed

\* index_reader: a new reader of the index and its searcher, which keeps
\* what the reader had loaded; it takes no lock.
index_reader ==
    /\ Len(searchers) < MaxSearchers
    /\ searchers' = Append(searchers, [docs |-> ReaderLoad, commits |-> Len(commit_log)])
    /\ UNCHANGED <<pc, mutex, pending, committed, discarded, commit_log, added,
                   ncalls, nif, ret, engine, shared_vars>>

WriterNext ==
    \/ \E p \in Callers : Call(p)
    \/ \E p \in Callers : Lock(p)
    \/ \E p \in Callers : Body(p)
    \/ \E p \in Callers : BatchRound(p)
    \/ \E p \in Callers : Unlock(p)
    \/ index_reader

WriterSpec == Init /\ [][WriterNext]_vars

(***************************************************************************)
(* facet.rs: one FacetCollectorResource shared by concurrent callers.      *)
(* facet_collector_add_facet writes the collector through a raw pointer    *)
(* cast from the shared reference; facet_search reads it.  Neither takes   *)
(* a lock.                                                                 *)
(***************************************************************************)
\* facet_collector_for_field: a collector with no facet.
facet_collector_for_field == [facets |-> {}]

FacetPathSamples == {"/a", "/b", "a"}

\* Facet::from_text: a path starts with a slash.
FacetPathOk(facet_path) == facet_path # "a"

\* A caller enters facet_collector_add_facet or facet_search.
FacetCall(p) ==
    /\ frame[p] = NoFrame
    /\ \/ \E facet_path \in FacetPathSamples :
              frame' = [frame EXCEPT ![p] = [op |-> "facet_collector_add_facet",
                                             arg |-> facet_path, step |-> 1]]
       \/ frame' = [frame EXCEPT ![p] = [op |-> "facet_search", arg |-> "none",
                                         step |-> 1]]
    /\ UNCHANGED <<guards, resource, nif_vars, writer_vars>>

\* Another caller is writing the collector, or reading it.
Overlaps(p) ==
    \E q \in Callers \ {p} :
        \/ frame[q].op = "facet_collector_add_facet" /\ frame[q].step = 2
        \/ frame[q].op = "facet_search" /\ frame[q].step = 2

\* let facet = match Facet::from_text(&facet_path): an invalid path returns
\* the error; a valid one enters the unsafe block.
AddFacetParse(p) ==
    /\ frame[p].op = "facet_collector_add_facet" /\ frame[p].step = 1
    /\ frame' = [frame EXCEPT ![p] = IF FacetPathOk(frame[p].arg)
                                      THEN [@ EXCEPT !.step = 2] ELSE NoFrame]
    /\ UNCHANGED <<guards, resource, nif_vars, writer_vars>>

\* (*collector_ptr).add_facet(facet) ends and the NIF returns.  A write
\* that overlapped another access is a data race: the collector is left
\* with any of the facets offered to it.
AddFacetWrite(p) ==
    /\ frame[p].op = "facet_collector_add_facet" /\ frame[p].step = 2
    /\ IF Overlaps(p)
       THEN \E left \in SUBSET (resource.facets \cup {frame[p].arg}) :
                resource' = [resource EXCEPT !.facets = left]
       ELSE resource' = [resource EXCEPT !.facets = @ \cup {frame[p].arg}]
    /\ frame' = [frame EXCEPT ![p] = NoFrame]
    /\ UNCHANGED <<guards, nif_vars, writer_vars>>

\* searcher.search(&*query_res.query, &collector_res.collector) starts.
FacetSearchRead(p) ==
    /\ frame[p].op = "facet_search" /\ frame[p].step = 1
    /\ frame' = [frame EXCEPT ![p].step = 2]
    /\ UNCHANGED <<guards, resource, nif_vars, writer_vars>>

\* The search ends and facet_search returns the counts.
FacetSearchReturn(p) ==
    /\ frame[p].op = "facet_search" /\ frame[p].step = 2
    /\ frame' = [frame EXCEPT ![p] = NoFrame]
    /\ UNCHANGED <<guards, resource, nif_vars, writer_vars>>

FacetInit == InitWith(facet_collector_for_field)

FacetNext ==
    \/ \E p \in Callers : FacetCall(p)
    \/ \E p \in Callers : AddFacetParse(p)
    \/ \E p \in Callers : AddFacetWrite(p)
    \/ \E p \in Callers : FacetSearchRead(p)
    \/ \E p \in Callers : FacetSearchReturn(p)

FacetSpec == FacetInit /\ [][FacetNext]_vars

(***************************************************************************)
(* Locks of a shared resource: std::sync::Mutex and RwLock.  A guard is    *)
(* held from the statement that takes it to the return of the NIF.         *)
(***************************************************************************)
Guard(lock, mode) == [lock |-> lock, mode |-> mode]

\* Mutex::lock and RwLock::write wait until nobody holds the lock;
\* RwLock::read waits until nobody holds it for writing.
Available(lock, mode) ==
    \A q \in Callers : \A g \in guards[q] :
        g.lock = lock => (mode = "read" /\ g.mode = "read")

\* The n-th lock statement of the call a caller is in, given the locks the
\* NIF takes in the order of its statements.
Blocked(p, order) ==
    /\ frame[p].op # "none"
    /\ frame[p].step <= Len(order)
    /\ ~Available(order[frame[p].step].lock, order[frame[p].step].mode)

(***************************************************************************)
(* reader_manager.rs: the NIFs of one ReaderManagerResource.  resource:    *)
(* the keys of readers, policies and reload_stats.                         *)
(***************************************************************************)
ReaderManagerResource == [readers |-> {}, policies |-> {}, reload_stats |-> {}]

ManagerOps ==
    {"reader_manager_create_policy", "reader_manager_create_reader",
     "reader_manager_reload_reader", "reader_manager_get_reader_stats",
     "reader_manager_list_readers", "reader_manager_dispose_reader",
     "reader_manager_clear_all"}

\* The arguments of a call: reader_id, policy_name and whether the index
\* gives a reader.
ManagerArgs(op) ==
    CASE op = "reader_manager_create_policy" ->
             {[reader_id |-> "none", policy_name |-> "p", reader_ok |-> TRUE]}
      [] op = "reader_manager_create_reader" ->
             {[reader_id |-> "r", policy_name |-> n, reader_ok |-> b] :
                 n \in {"p", "q"}, b \in BOOLEAN}
      [] op \in {"reader_manager_reload_reader", "reader_manager_get_reader_stats",
                 "reader_manager_dispose_reader"} ->
             {[reader_id |-> "r", policy_name |-> "none", reader_ok |-> TRUE]}
      [] OTHER -> {[reader_id |-> "none", policy_name |-> "none", reader_ok |-> TRUE]}

\* The lock statements of each NIF, in the order of the code.
ManagerLocks(op) ==
    CASE op = "reader_manager_create_policy" -> <<Guard("policies", "lock")>>
      [] op = "reader_manager_create_reader" ->
             <<Guard("policies", "lock"), Guard("readers", "write"),
               Guard("reload_stats", "lock")>>
      [] op = "reader_manager_reload_reader" ->
             <<Guard("readers", "read"), Guard("reload_stats", "lock")>>
      [] op = "reader_manager_get_reader_stats" -> <<Guard("reload_stats", "lock")>>
      [] op = "reader_manager_list_readers" ->
             <<Guard("readers", "read"), Guard("reload_stats", "lock"),
               Guard("policies", "lock")>>
      [] op = "reader_manager_dispose_reader" ->
             <<Guard("readers", "write"), Guard("reload_stats", "lock")>>
      [] op = "reader_manager_clear_all" ->
             <<Guard("readers", "write"), Guard("reload_stats", "lock"),
               Guard("policies", "lock")>>
      [] OTHER -> <<>>

\* What the statements after the n-th lock statement do to the maps.
ManagerEffect(op, arg, n, res) ==
    CASE op = "reader_manager_create_policy" /\ n = 1 ->
             [res EXCEPT !.policies = @ \cup {arg.policy_name}]
      [] op = "reader_manager_create_reader" /\ n = 2 ->
             [res EXCEPT !.readers = @ \cup {arg.reader_id}]
      [] op = "reader_manager_create_reader" /\ n = 3 ->
             [res EXCEPT !.reload_stats = @ \cup {arg.reader_id}]
      [] op = "reader_manager_dispose_reader" /\ n = 2 ->
             [res EXCEPT !.readers = @ \ {arg.reader_id},
                         !.reload_stats = @ \ {arg.reader_id}]
      [] op = "reader_manager_clear_all" /\ n = 3 ->
             [readers |-> {}, policies |-> {}, reload_stats |-> {}]
      [] OTHER -> res

\* The `?` after the n-th lock statement returns Error::BadArg: the policy
\* is not known or the index gives no reader (create_reader), the reader is
\* not known (reload_reader, get_reader_stats).
ManagerBadArg(op, arg, n, res) ==
    \/ /\ op = "reader_manager_create_reader" /\ n = 1
       /\ arg.policy_name \notin res.policies \/ ~arg.reader_ok
    \/ /\ op = "reader_manager_reload_reader" /\ n = 1
       /\ arg.reader_id \notin res.readers
    \/ /\ op = "reader_manager_get_reader_stats" /\ n = 1
       /\ arg.reader_id \notin res.reload_stats

\* A caller enters a NIF of the manager.
ManagerCall(p) ==
    /\ frame[p].op = "none"
    /\ \E op \in ManagerOps : \E arg \in ManagerArgs(op) :
           frame' = [frame EXCEPT ![p] = [op |-> op, arg |-> arg, step |-> 1]]
    /\ UNCHANGED <<guards, resource, nif_vars, writer_vars>>

\* The next lock statement of the call, once the lock is free, and the
\* statements up to the one after it.
ManagerLock(p) ==
    LET order == ManagerLocks(frame[p].op)
        n == frame[p].step
    IN /\ frame[p].op \in ManagerOps
       /\ n <= Len(order)
       /\ Available(order[n].lock, order[n].mode)
       /\ IF ManagerBadArg(frame[p].op, frame[p].arg, n, resource)
          THEN /\ frame' = [frame EXCEPT ![p] = NoFrame]
               /\ guards' = [guards EXCEPT ![p] = {}]
               /\ UNCHANGED resource
          ELSE /\ guards' = [guards EXCEPT ![p] = @ \cup {order[n]}]
               /\ resource' = ManagerEffect(frame[p].op, frame[p].arg, n, resource)
               /\ frame' = [frame EXCEPT ![p].step = n + 1]
       /\ UNCHANGED <<nif_vars, writer_vars>>

\* The NIF returns and its guards are dropped.
ManagerReturn(p) ==
    /\ frame[p].op \in ManagerOps
    /\ frame[p].step > Len(ManagerLocks(frame[p].op))
    /\ frame' = [frame EXCEPT ![p] = NoFrame]
    /\ guards' = [guards EXCEPT ![p] = {}]
    /\ UNCHANGED <<resource, nif_vars, writer_vars>>

ManagerInit == InitWith(ReaderManagerResource)

ManagerNext ==
    \/ \E p \in Callers : ManagerCall(p)
    \/ \E p \in Callers : ManagerLock(p)
    \/ \E p \in Callers : ManagerReturn(p)

ManagerSpec == ManagerInit /\ [][ManagerNext]_vars

(***************************************************************************)
(* index_warming.rs: the NIFs of one IndexWarmingResource.  resource: the  *)
(* keys of the cache (each entry with size_bytes) and, of the stats,       *)
(* memory_usage_bytes and warming_operations.                              *)
(***************************************************************************)
MaxWarmings == 2

\* let size_bytes = 1024 * 1024
size_bytes == 1024 * 1024

IndexWarmingResource ==
    [cache |-> {}, memory_usage_bytes |-> 0, warming_operations |-> 0]

CacheKeys == {"k1", "k2"}

WarmingOps ==
    {"index_warming_warm_index", "index_warming_get_searcher",
     "index_warming_evict_cache", "index_warming_get_stats",
     "index_warming_clear_cache"}

\* The arguments of a call: cache_key, whether the index gives a reader,
\* force_all, and the keys whose entries are older than the TTL when the
\* eviction runs.
WarmingArgs(op) ==
    CASE op = "index_warming_warm_index" ->
             {[cache_key |-> k, reader_ok |-> b, force_all |-> FALSE, expired |-> {}] :
                 k \in CacheKeys, b \in BOOLEAN}
      [] op = "index_warming_get_searcher" ->
             {[cache_key |-> k, reader_ok |-> TRUE, force_all |-> FALSE, expired |-> {}] :
                 k \in CacheKeys}
      [] op = "index_warming_evict_cache" ->
             {[cache_key |-> "none", reader_ok |-> TRUE, force_all |-> b, expired |-> e] :
                 b \in BOOLEAN, e \in SUBSET CacheKeys}
      [] OTHER ->
             {[cache_key |-> "none", reader_ok |-> TRUE, force_all |-> FALSE,
               expired |-> {}]}

\* The lock statements of each NIF, in the order of the code.  The guard of
\* config.lock().unwrap().clone() is dropped at the end of its statement.
WarmingLocks(op) ==
    CASE op = "index_warming_warm_index" ->
             <<Guard("config", "clone"), Guard("cache", "lock"), Guard("stats", "lock")>>
      [] op = "index_warming_get_searcher" ->
             <<Guard("cache", "lock"), Guard("stats", "lock")>>
      [] op = "index_warming_evict_cache" ->
             <<Guard("config", "clone"), Guard("cache", "lock"), Guard("stats", "lock")>>
      [] op = "index_warming_get_stats" ->
             <<Guard("stats", "lock"), Guard("cache", "lock")>>
      [] op = "index_warming_clear_cache" ->
             <<Guard("cache", "lock"), Guard("stats", "lock")>>
      [] OTHER -> <<>>

\* usize::saturating_sub
saturating_sub(a, b) == IF a >= b THEN a - b ELSE 0

\* What the statements after the n-th lock statement do to the cache and
\* the stats.
WarmingEffect(op, arg, n, res) ==
    CASE op = "index_warming_warm_index" /\ n = 2 ->
             [res EXCEPT !.cache = @ \cup {arg.cache_key}]
      [] op = "index_warming_warm_index" /\ n = 3 ->
             [res EXCEPT !.warming_operations = @ + 1,
                         !.memory_usage_bytes = @ + size_bytes]
      [] op = "index_warming_evict_cache" /\ n = 3 /\ arg.force_all ->
             [res EXCEPT !.cache = {}, !.memory_usage_bytes = 0]
      [] op = "index_warming_evict_cache" /\ n = 3 /\ ~arg.force_all ->
             [res EXCEPT !.cache = @ \ arg.expired,
                         !.memory_usage_bytes =
                             saturating_sub(@, size_bytes
                                 * Cardinality(res.cache \cap arg.expired))]
      [] op = "index_warming_clear_cache" /\ n = 2 ->
             [res EXCEPT !.cache = {}, !.memory_usage_bytes = 0]
      [] OTHER -> res

\* index.reader().map_err(|_| Error::BadArg)? after the config is cloned.
WarmingBadArg(op, arg, n) ==
    op = "index_warming_warm_index" /\ n = 1 /\ ~arg.reader_ok

\* A caller enters a NIF of the warming resource.
WarmingCall(p) ==
    /\ frame[p].op = "none"
    /\ \E op \in WarmingOps : \E arg \in WarmingArgs(op) :
           /\ op = "index_warming_warm_index"
                  => resource.warming_operations
                       + Cardinality({q \in Callers :
                                        frame[q].op = "index_warming_warm_index"})
                       < MaxWarmings
           /\ frame' = [frame EXCEPT ![p] = [op |-> op, arg |-> arg, step |-> 1]]
    /\ UNCHANGED <<guards, resource, nif_vars, writer_vars>>

\* The next lock statement of the call, once the lock is free, and the
\* statements up to the one after it.
WarmingLock(p) ==
    LET order == WarmingLocks(frame[p].op)
        n == frame[p].step
    IN /\ frame[p].op \in WarmingOps
       /\ n <= Len(order)
       /\ Available(order[n].lock, order[n].mode)
       /\ IF WarmingBadArg(frame[p].op, frame[p].arg, n)
          THEN /\ frame' = [frame EXCEPT ![p] = NoFrame]
               /\ guards' = [guards EXCEPT ![p] = {}]
               /\ UNCHANGED resource
          ELSE /\ guards' = [guards EXCEPT ![p] =
                                IF order[n].mode = "clone" THEN @ ELSE @ \cup {order[n]}]
               /\ resource' = WarmingEffect(frame[p].op, frame[p].arg, n, resource)
               /\ frame' = [frame EXCEPT ![p].step = n + 1]
       /\ UNCHANGED <<nif_vars, writer_vars>>

\* The NIF returns (get_searcher with Error::BadArg when the key is not
\* cached) and its guards are dropped.
WarmingReturn(p) ==
    /\ frame[p].op \in WarmingOps
    /\ frame[p].step > Len(WarmingLocks(frame[p].op))
    /\ frame' = [frame EXCEPT ![p] = NoFrame]
    /\ guards' = [guards EXCEPT ![p] = {}]
    /\ UNCHANGED <<resource, nif_vars, writer_vars>>

WarmingInit == InitWith(IndexWarmingResource)

WarmingNext ==
    \/ \E p \in Callers : WarmingCall(p)
    \/ \E p \in Callers : WarmingLock(p)
    \/ \E p \in Callers : WarmingReturn(p)

WarmingSpec == WarmingInit /\ [][WarmingNext]_vars

(***************************************************************************)
(* custom_collector.rs: the NIFs of one CustomCollectorResource.           *)
(* resource: the keys of collectors, scoring_functions and                 *)
(* collection_results.                                                     *)
(***************************************************************************)
CustomCollectorResource ==
    [collectors |-> {}, scoring_functions |-> {}, collection_results |-> {}]

CollectorOps ==
    {"custom_collector_create_scoring_function", "custom_collector_create_top_k",
     "custom_collector_set_field_boosts", "custom_collector_list_collectors",
     "custom_collector_clear_all"}

\* The arguments of a call: the name of the collector, the name of the
\* scoring function and the scoring type.
CollectorArgs(op) ==
    CASE op = "custom_collector_create_scoring_function" ->
             {[collector_name |-> "none", name |-> "f", scoring_type |-> t] :
                 t \in {"bm25", "other"}}
      [] op = "custom_collector_create_top_k" ->
             {[collector_name |-> "c", name |-> n, scoring_type |-> "none"] :
                 n \in {"f", "g"}}
      [] op = "custom_collector_set_field_boosts" ->
             {[collector_name |-> "none", name |-> n, scoring_type |-> "none"] :
                 n \in {"f", "g"}}
      [] OTHER -> {[collector_name |-> "none", name |-> "none", scoring_type |-> "none"]}

\* The lock statements of each NIF, in the order of the code.
CollectorLocks(op) ==
    CASE op = "custom_collector_create_scoring_function" ->
             <<Guard("scoring_functions", "lock")>>
      [] op = "custom_collector_create_top_k" ->
             <<Guard("scoring_functions", "lock"), Guard("collectors", "lock")>>
      [] op = "custom_collector_set_field_boosts" ->
             <<Guard("scoring_functions", "lock")>>
      [] op = "custom_collector_list_collectors" ->
             <<Guard("collectors", "lock"), Guard("scoring_functions", "lock")>>
      [] op = "custom_collector_clear_all" ->
             <<Guard("collectors", "lock"), Guard("scoring_functions", "lock"),
               Guard("collection_results", "lock")>>
      [] OTHER -> <<>>

\* What the statements after the n-th lock statement do to the maps.
CollectorEffect(op, arg, n, res) ==
    CASE op = "custom_collector_create_scoring_function" /\ n = 1 ->
             [res EXCEPT !.scoring_functions = @ \cup {arg.name}]
      [] op = "custom_collector_create_top_k" /\ n = 2 ->
             [res EXCEPT !.collectors = @ \cup {arg.collector_name}]
      [] op = "custom_collector_clear_all" /\ n = 3 ->
             [collectors |-> {}, scoring_functions |-> {}, collection_results |-> {}]
      [] OTHER -> res

\* match scoring_type.as_str() { .. _ => return Err(Error::BadArg) }, before
\* the first lock statement.
UnknownScoringType(op, arg, n) ==
    op = "custom_collector_create_scoring_function" /\ n = 1
    /\ arg.scoring_type # "bm25"

\* Error::BadArg after the n-th lock statement: the scoring function is not
\* known.
CollectorBadArg(op, arg, n, res) ==
    /\ op \in {"custom_collector_create_top_k", "custom_collector_set_field_boosts"}
    /\ n = 1
    /\ arg.name \notin res.scoring_functions

\* A caller enters a NIF of the collector resource.
CollectorCall(p) ==
    /\ frame[p].op = "none"
    /\ \E op \in CollectorOps : \E arg \in CollectorArgs(op) :
           frame' = [frame EXCEPT ![p] = [op |-> op, arg |-> arg, step |-> 1]]
    /\ UNCHANGED <<guards, resource, nif_vars, writer_vars>>

\* The next lock statement of the call, once the lock is free, and the
\* statements up to the one after it.
CollectorLock(p) ==
    LET order == CollectorLocks(frame[p].op)
        n == frame[p].step
        unknown == UnknownScoringType(frame[p].op, frame[p].arg, n)
    IN /\ frame[p].op \in CollectorOps
       /\ n <= Len(order)
       /\ unknown \/ Available(order[n].lock, order[n].mode)
       /\ IF unknown \/ CollectorBadArg(frame[p].op, frame[p].arg, n, resource)
          THEN /\ frame' = [frame EXCEPT ![p] = NoFrame]
               /\ guards' = [guards EXCEPT ![p] = {}]
               /\ UNCHANGED resource
          ELSE /\ guards' = [guards EXCEPT ![p] = @ \cup {order[n]}]
               /\ resource' = CollectorEffect(frame[p].op, frame[p].arg, n, resource)
               /\ frame' = [frame EXCEPT ![p].step = n + 1]
       /\ UNCHANGED <<nif_vars, writer_vars>>

\* The NIF returns and its guards are dropped.
CollectorReturn(p) ==
    /\ frame[p].op \in CollectorOps
    /\ frame[p].step > Len(CollectorLocks(frame[p].op))
    /\ frame' = [frame EXCEPT ![p] = NoFrame]
    /\ guards' = [guards EXCEPT ![p] = {}]
    /\ UNCHANGED <<resource, nif_vars, writer_vars>>

CollectorInit == InitWith(CustomCollectorResource)

CollectorNext ==
    \/ \E p \in Callers : CollectorCall(p)
    \/ \E p \in Callers : CollectorLock(p)
    \/ \E p \in Callers : CollectorReturn(p)

CollectorSpec == CollectorInit /\ [][CollectorNext]_vars

(***************************************************************************)
(* Properties.                                                             *)
(***************************************************************************)
\* The entry of a name that is a field of the schema.
EntryOf(name) == GetFieldEntry(GetField(name).val)

IsField(name) == IsOk(GetField(name))

\* A tokenized Text field, and a value of two words or more.
MultiWordOnTokenized(name, s) ==
    /\ IsField(name)
    /\ EntryOf(name).type = "Str"
    /\ HasIndexingOptions(EntryOf(name))
    /\ Len(SplitWhitespace(s)) >= 2

ShapeFor(name) == IF HasPositions(EntryOf(name)) THEN "Phrase" ELSE "Boolean"

\* C1: for every tokenized Text field and every value of two or more words,
\* query_term and writer_delete_term build a query of the same shape: a
\* Phrase when the field indexes positions, a Boolean conjunction of Must
\* terms when it does not.
C1_SameQueryShape ==
    /\ (nif.op = "query_term"
        /\ MultiWordOnTokenized(nif.args.field_name, nif.args.term_value))
       => /\ IsOk(ret)
          /\ ret.val.q = ShapeFor(nif.args.field_name)
          /\ LET d == DeleteTarget(nif.args.field_name, TStr(nif.args.term_value))
             IN IsOk(d) /\ d.val.by = "query" /\ d.val.query.q = ret.val.q
    /\ (nif.op = "writer_delete_term"
        /\ IsOk(DecodeString(nif.args.term_value))
        /\ MultiWordOnTokenized(nif.args.term_field, nif.args.term_value.s))
       => /\ Len(engine) = 1
          /\ engine[1].call = "delete_query"
          /\ engine[1].query.q = ShapeFor(nif.args.term_field)
          /\ LET q == query_term(nif.args.term_field, nif.args.term_value.s)
             IN IsOk(q) /\ q.val.q = engine[1].query.q

\* A pair of a document whose key is a field and whose value the document
\* builder (add_field_to_document) does not coerce to the field's type.
CoercionFails(p) ==
    /\ IsField(p.k)
    /\ IsErr(add_field_to_document(<<>>, GetField(p.k).val, EntryOf(p.k).type, p.v))

DocumentFails(document) ==
    /\ IsOk(DecodeMap(document))
    /\ \E n \in 1..Len(document.m) : CoercionFails(document.m[n])

AddDocumentOps ==
    {"writer_add_document", "writer_add_document_with_schema", "writer_add_document_batch"}

\* The documents of the call: the one of a single add, those of a batch.
DocumentsOf(call) ==
    IF call.op = "writer_add_document_batch" THEN call.args.documents
    ELSE <<call.args.document>>

\* C2: when the coercion of a field of a document fails, no add-document
\* operation hands that document to the index writer: the writer is given
\* the documents all of whose fields coerce, and only those.
C2_NoPartialDocument ==
    nif.op \in AddDocumentOps
    => LET docs == DocumentsOf(nif)
       IN Len(engine) = Cardinality({n \in 1..Len(docs) :
                                        IsOk(DecodeMap(docs[n])) /\ ~DocumentFails(docs[n])})

\* A pair of a document that gives a negative integer to a U64 field.
NegativeForUnsigned(p) ==
    /\ IsField(p.k)
    /\ EntryOf(p.k).type = "U64"
    /\ p.v.t = "int"
    /\ p.v.i < 0

NegativePairs(document) ==
    IF IsOk(DecodeMap(document))
    THEN {document.m[n] : n \in {j \in 1..Len(document.m) : NegativeForUnsigned(document.m[j])}}
    ELSE {}

\* No call on the engine carries a value of the U64 field named k.
NoValueOn(k) ==
    \A c \in 1..Len(engine) :
        /\ engine[c].call = "add_document"
           => \A j \in 1..Len(engine[c].doc) : engine[c].doc[j].field # GetField(k).val
        /\ engine[c].call = "delete_term" => engine[c].term.field # GetField(k).val

\* C3: a negative integer given to a U64 field is reported as an error by
\* the single adds, the batch add, the validation and the deletion by term,
\* and no unsigned value derived from it is stored or used as a term.
C3_NegativeForUnsignedReported ==
    /\ nif.op \in {"writer_add_document", "writer_add_document_with_schema"}
       => \A p \in NegativePairs(nif.args.document) : IsErr(ret) /\ NoValueOn(p.k)
    /\ nif.op = "writer_add_document_batch"
       => \A n \in 1..Len(nif.args.documents) :
            \A p \in NegativePairs(nif.args.documents[n]) :
               /\ \E e \in 1..Len(nif.locals.errors) : nif.locals.errors[e].index = n - 1
               /\ NoValueOn(p.k)
    /\ nif.op = "validate_document_against_schema"
       => \A p \in NegativePairs(nif.args.document) :
            /\ IsErr(ret)
            /\ \E e \in 1..Len(ret.err.errors) : ret.err.errors[e].field = p.k
    /\ (nif.op = "writer_delete_term"
        /\ NegativeForUnsigned(KV(nif.args.term_field, nif.args.term_value)))
       => IsErr(ret) /\ engine = <<>>

\* What becomes of one document of a batch; accepted: the writer's answer.
DocumentOutcome(document, accepted) ==
    IF IsErr(DecodeMap(document)) THEN "undecoded"
    ELSE IF DocumentFails(document) THEN "coercion"
    ELSE IF accepted THEN "added"
    ELSE "refused"

\* C4: writer_add_document_batch processes every document once, whatever
\* became of the others: each document's outcome is the one it has alone,
\* each failure is recorded once under the document's index, the writer
\* is given each valid document once, and successful + errors is the
\* number of documents.
C4_BatchIsolatesFailures ==
    nif.op = "writer_add_document_batch"
    => LET docs == nif.args.documents
           errs == nif.locals.errors
           out(n) == DocumentOutcome(docs[n], (n - 1) \notin nif.args.refused)
       IN /\ ret.val.successful + ret.val.errors = Len(docs)
          /\ ret.val.successful = Cardinality({n \in 1..Len(docs) : out(n) = "added"})
          /\ ret.val.errors = Len(errs)
          /\ \A n \in 1..Len(docs) :
                out(n) # "added" <=> \E e \in 1..Len(errs) : errs[e].index = n - 1
          /\ \A e1, e2 \in 1..Len(errs) : e1 < e2 => errs[e1].index < errs[e2].index
          /\ Len(engine) = Cardinality({n \in 1..Len(docs) : out(n) \in {"added", "refused"}})

\* A batch whose first document fails and whose last one is added.
C4_FailureThenSuccess ==
    /\ nif.op = "writer_add_document_batch"
    /\ Len(nif.args.documents) >= 2
    /\ DocumentOutcome(nif.args.documents[1], 0 \notin nif.args.refused) # "added"
    /\ Len(nif.locals.errors) >= 1
    /\ nif.locals.errors[1].index = 0
    /\ ret.val.successful >= 1
    /\ engine[Len(engine)].call = "add_document"

\* C5: for a document several fields of which fail coercion, the document
\* builder reports an error for each failing field: the validation in the
\* errors it returns, the batch in the errors it records for the document.
C5_OneErrorPerFailingField ==
    /\ (nif.op = "validate_document_against_schema" /\ IsOk(DecodeMap(nif.args.document)))
       => \A n \in 1..Len(nif.args.document.m) :
             CoercionFails(nif.args.document.m[n])
             => /\ IsErr(ret)
                /\ \E e \in 1..Len(ret.err.errors) :
                      ret.err.errors[e].field = nif.args.document.m[n].k
    /\ nif.op = "writer_add_document_batch"
       => \A d \in 1..Len(nif.args.documents) :
             IsOk(DecodeMap(nif.args.documents[d]))
             => \A n \in 1..Len(nif.args.documents[d].m) :
                   CoercionFails(nif.args.documents[d].m[n])
                   => \E e \in 1..Len(nif.locals.errors) :
                         /\ nif.locals.errors[e].index = d - 1
                         /\ "field" \in DOMAIN nif.locals.errors[e]
                         /\ nif.locals.errors[e].field = nif.args.documents[d].m[n].k

\* The nodes of a request whose field is no field of the schema.
AbsentNodes(req) == {n \in 1..req.n : ~IsField(req.field[n])}

QueryTerms(q) ==
    CASE q.q = "Term" -> {q.term}
      [] q.q = "Phrase" -> {q.terms[n] : n \in 1..Len(q.terms)}
      [] q.q = "Boolean" -> {q.clauses[n].query.term : n \in 1..Len(q.clauses)}

FacetQueryOps == {"facet_term_query", "facet_multi_query", "query.facet_term_query"}

\* C7: every facet query, of one path or of several, is built on the field
\* its field name resolves to in the schema, never on a field id that does
\* not depend on the name.
C7_FacetFieldResolved ==
    (nif.op \in FacetQueryOps /\ IsOk(ret))
    => /\ IsField(nif.args.field_name)
       /\ \A t \in QueryTerms(ret.val) : t.field = GetField(nif.args.field_name).val

QueryOps ==
    {"query_term", "query_phrase", "query_range", "query_fuzzy", "query_regex",
     "query_wildcard", "query_phrase_prefix", "query_exists"} \cup FacetQueryOps

\* C8: every query constructor given a name that is no field of the schema
\* returns an error naming it, and builds no query.
C8_UnknownFieldRejected ==
    (nif.op \in QueryOps /\ ~IsField(nif.args.field_name))
    => /\ IsErr(ret)
       /\ "field" \in DOMAIN ret.err
       /\ ret.err.field = nif.args.field_name

\* A string that is no value of a scalar type, read with all the latitude
\* the code gives (blanks and quotes trimmed, the lenient booleans, a date
\* as epoch seconds or RFC 3339).
Unparsable(type, s) ==
    CASE type = "U64" -> IsErr(ParseU64(s)) /\ IsErr(ParseU64(TrimSet(Trim(s), {"\"", "'"})))
      [] type = "I64" -> IsErr(ParseI64(s))
      [] type = "F64" -> IsErr(ParseF64(s))
      [] type = "Bool" -> ToLowercase(s) \notin TrueWords \cup FalseWords
      [] type = "Date" -> IsErr(ParseI64(s)) /\ IsErr(ParseRfc3339(s))

\* C9: query_term on a U64, I64, F64, Bool or Date field, given a string
\* that does not parse as the field's type, returns an error naming the
\* field and the value, and builds no term from the text.
C9_UnparsableValueRejected ==
    (/\ nif.op = "query_term"
     /\ IsField(nif.args.field_name)
     /\ EntryOf(nif.args.field_name).type \in {"U64", "I64", "F64", "Bool", "Date"}
     /\ Unparsable(EntryOf(nif.args.field_name).type, nif.args.term_value))
    => /\ IsErr(ret)
       /\ ret.err.field = nif.args.field_name
       /\ ret.err.value = nif.args.term_value

\* What the document builder makes of a value for the field named name.
Built(name, value) ==
    add_field_to_document(<<>>, GetField(name).val, EntryOf(name).type, value)

\* The terms the engine indexes for a document of one field: the value
\* itself or, for a tokenized Text field, its lower-cased words.
IndexedTerms(name, doc) ==
    IF EntryOf(name).type = "Str" /\ HasIndexingOptions(EntryOf(name))
    THEN UNION {{WordTerms(doc[j].field, SplitWhitespace(doc[j].value.s))[w] :
                   w \in 1..Len(SplitWhitespace(doc[j].value.s))} : j \in 1..Len(doc)}
    ELSE {doc[j] : j \in 1..Len(doc)}

\* The terms the calls made on the engine delete by.
DeletedTerms ==
    UNION {IF engine[c].call = "delete_term" THEN {engine[c].term}
           ELSE QueryTerms(engine[c].query) : c \in 1..Len(engine)}

\* C10: for every value the document builder accepts for a field of type
\* Text, U64, I64, F64, Bool, Date, Facet, Bytes or IpAddr,
\* writer_delete_term with that field and value reaches the engine and
\* deletes by exactly the terms indexing the value produced; it fails
\* only if the engine refuses the deletion.
C10_DeleteMatchesIndexed ==
    (/\ nif.op = "writer_delete_term"
     /\ IsField(nif.args.term_field)
     /\ EntryOf(nif.args.term_field).type # "JsonObject"
     /\ IsOk(Built(nif.args.term_field, nif.args.term_value)))
    => /\ engine # <<>>
       /\ IsOk(ret) \/ (IsErr(ret) /\ ret.err.msg = "Failed to delete by query")
       /\ DeletedTerms = IndexedTerms(nif.args.term_field,
                                      Built(nif.args.term_field, nif.args.term_value).val)


\* The texts of the terms a field's dictionary may hold.
TermTexts ==
    LET A == {"a", "b", ".", "("}
    IN {<<>>} \cup {<<x>> : x \in A} \cup {<<x, y>> : x \in A, y \in A}
       \cup {<<x, y, z>> : x \in A, y \in A, z \in A}

RECURSIVE WildcardMatches(_, _)
\* A wildcard pattern read as the caller writes it: '*' stands for any run
\* of characters, '?' for any one character, every other character for
\* itself.
WildcardMatches(pattern, text) ==
    IF pattern = <<>> THEN text = <<>>
    ELSE IF Head(pattern) = "*"
    THEN WildcardMatches(Tail(pattern), text)
         \/ (text # <<>> /\ WildcardMatches(pattern, Tail(text)))
    ELSE /\ text # <<>>
         /\ Head(pattern) = "?" \/ Head(pattern) = Head(text)
         /\ WildcardMatches(Tail(pattern), Tail(text))

WildcardOps == {"query_wildcard", "lib.query_wildcard"}

\* C11: query_wildcard on a field of the schema builds a regular-expression
\* query whose pattern is the wildcard pattern translated character by
\* character, '*' to '.*', '?' to '.', every other metacharacter escaped: the
\* compiled expression matches a term exactly when the wildcard pattern
\* does, each literal character matching only itself.
C11_WildcardTranslation ==
    (nif.op \in WildcardOps /\ IsField(nif.args.field_name))
    => /\ IsOk(ret)
       /\ ret.val.q = "Regex"
       /\ \A t \in TermTexts :
              RegexMatches(ret.val.pattern, t) <=> WildcardMatches(nif.args.pattern, t)

\* The terms of a dictionary a term query or a regex query selects.
Selects(q, text) ==
    IF q.q = "Regex" THEN RegexMatches(q.pattern, text)
    ELSE q.q = "Term" /\ q.term.value.s = text

StartsWith(text, prefix) ==
    Len(text) >= Len(prefix) /\ SubSeq(text, 1, Len(prefix)) = prefix

\* A pattern "literal*" with no other wildcard.
IsPrefixPattern(pattern) ==
    /\ pattern # <<>>
    /\ pattern[Len(pattern)] = "*"
    /\ ~Contains(SubSeq(pattern, 1, Len(pattern) - 1), "*")
    /\ ~Contains(pattern, "?")

\* C12: for a pattern "literal*" with no other wildcard, the query that
\* query_wildcard returns, be it the regular-expression query or the term
\* query built when the expression does not compile, selects exactly the
\* terms that start with the literal.
C12_PrefixFormsAgree ==
    (nif.op \in WildcardOps /\ IsField(nif.args.field_name)
     /\ IsPrefixPattern(nif.args.pattern))
    => /\ IsOk(ret)
       /\ \A t \in TermTexts :
              Selects(ret.val, t)
              <=> StartsWith(t, SubSeq(nif.args.pattern, 1, Len(nif.args.pattern) - 1))


\* A call that rendered the hit of a stored document, and the rendered
\* fields of that hit.
RenderedHit ==
    \/ /\ nif.op = "searcher_search_with_query"
       /\ nif.args.include_docs /\ IsOk(ret) /\ nif.args.indexed # <<>>
    \/ /\ nif.op = "run_search_with_aggregations"
       /\ ret.val.text = "result" /\ nif.args.indexed # <<>>

HitFields ==
    IF nif.op = "searcher_search_with_query" THEN ret.val[1].fields
    ELSE ret.val.hits[1].fields

\* The dynamic value v as a JSON value when read as a value of the type:
\* v itself, but for an IP address in its IPv6-mapped form, a date as its
\* nanosecond timestamp and bytes as base64.
Normalized(type, v) ==
    CASE type = "Str" -> JString(v.s)
      [] type = "U64" -> JNumber(VU64(v.i))
      [] type = "I64" -> JNumber(VI64(v.i))
      [] type = "F64" -> JNumber(VF64(IF v.t = "float" THEN v.h ELSE 2 * v.i))
      [] type = "Bool" -> [j |-> "Bool", b |-> v.b]
      [] type = "Date" ->
           JNumber(TimestampNanos(IF v.t = "int" THEN v.i ELSE ParseRfc3339(v.s).val))
      [] type = "Facet" ->
           IF v.t = "list"
           THEN [j |-> "Array", items |-> [n \in 1..Len(v.l) |-> convert_term_to_json_value(v.l[n])]]
           ELSE JString(v.s)
      [] type = "Bytes" ->
           IF v.t = "list" THEN JString(Base64Encode(DecodeVecU8(v).val)) ELSE JString(v.s)
      [] type = "JsonObject" -> convert_term_to_json_value(v)
      [] type = "IpAddr" ->
           JString(IF ParseIpAddr(v.s).val.v = 4
                   THEN <<":", ":", "f", "f", "f", "f", ":">> \o v.s ELSE v.s)

\* C13: for every field type and every value coercion accepts, the value a
\* hit renders for the field is the value that was given, up to the
\* documented normalization only (an IP address in its IPv6-mapped form, a
\* date in the one canonical form).
C13_ProjectCoerceRoundTrip ==
    RenderedHit
    => LET name == nif.args.indexed[1].field_name
           v == nif.args.indexed[1].value
       IN /\ name \in DOMAIN HitFields
          /\ HitFields[name] = Normalized(EntryOf(name).type, v)

\* C14: searcher_search_with_query and run_search_with_aggregations render
\* every stored value of a hit as the same dynamic value, and a Date as its
\* integer nanosecond timestamp.
C14_RenderersAgree ==
    RenderedHit
    => LET doc == nif.locals.docs[1]
       IN /\ HitFields = SearchHit(doc, TRUE).fields
          /\ HitFields = AggregationHit(doc).fields
          /\ \A name \in FieldsOfDoc(doc) :
                LastValue(doc, name).ty = "Date"
                => HitFields[name] = JNumber(TimestampNanos(LastValue(doc, name).secs))


\* The keys of a bucket object that are the bucket's own.
OwnKeys(variant) ==
    IF variant = "Range" THEN {"from", "key", "doc_count"} ELSE {"key", "doc_count"}

OwnValue(b, k) == JNumber(IF k = "from" THEN VF64(b.key)
                          ELSE IF k = "key" THEN VU64(b.key) ELSE VU64(b.doc_count))

RECURSIVE Flattened(_, _, _)
\* json is result with the sub-aggregations of every bucket, at every depth,
\* as keys of the bucket's object and no other key but the bucket's own;
\* the bucket's own keys hold the bucket's values, all of them (strict) or
\* those no sub-aggregation is named like.
Flattened(result, json, strict) ==
    IF result.variant = "Metric" THEN json = convert_metric_result_to_json(result)
    ELSE /\ "buckets" \in DOMAIN json
         /\ Len(json.buckets) = Len(result.buckets)
         /\ \A i \in 1..Len(result.buckets) :
               LET b == result.buckets[i]
                   o == json.buckets[i]
                   names == {sub.name : sub \in b.sub_aggregation}
               IN /\ DOMAIN o = OwnKeys(result.variant) \cup names
                  /\ \A sub \in b.sub_aggregation : Flattened(sub.result, o[sub.name], strict)
                  /\ \A k \in OwnKeys(result.variant) :
                        (strict \/ k \notin names) => o[k] = OwnValue(b, k)

ProjectedAggregations ==
    nif.op = "run_search_with_aggregations" /\ ret.val.text = "result"

HasUnknownKey(document) ==
    /\ IsOk(DecodeMap(document))
    /\ \E n \in 1..Len(document.m) : ~IsField(document.m[n].k)

\* The values of the document's keys that are fields pass the validation.
KnownFieldsValid(document) ==
    \A n \in 1..Len(document.m) :
        IsField(document.m[n].k)
        => IsOk(validate_field_value(document.m[n].v, EntryOf(document.m[n].k).type))

\* The document handed to the engine holds no value but those of the keys
\* that are fields.
OnlyKnownFieldsAdded(document, doc) ==
    \A j \in 1..Len(doc) :
        \E n \in 1..Len(document.m) :
            IsField(document.m[n].k) /\ GetField(document.m[n].k).val = doc[j].field

\* C20: a key of a document that is no field of the schema is skipped and is
\* not fatal: the single adds hand the document built from the other keys
\* to the writer, the batch add counts the document as any other, and the
\* validation does not fail for it.
C20_UnknownKeySkipped ==
    /\ (nif.op \in {"writer_add_document", "writer_add_document_with_schema"}
        /\ HasUnknownKey(nif.args.document))
       => /\ Len(engine) = 1
          /\ engine[1].call = "add_document"
          /\ OnlyKnownFieldsAdded(nif.args.document, engine[1].doc)
          /\ IsOk(ret) \/ ret.err.msg = "Failed to add document"
    /\ nif.op = "writer_add_document_batch"
       => \A n \in 1..Len(nif.args.documents) :
             (HasUnknownKey(nif.args.documents[n]) /\ ~DocumentFails(nif.args.documents[n]))
             => ((\E e \in 1..Len(nif.locals.errors) : nif.locals.errors[e].index = n - 1)
                 <=> (n - 1) \in nif.args.refused)
    /\ (nif.op = "validate_document_against_schema"
        /\ HasUnknownKey(nif.args.document) /\ KnownFieldsValid(nif.args.document))
       => IsOk(ret)


\* The calls of the schema_add_*_field functions.
SchemaAddCall == nif # NoCall /\ nif.op = "schema_add_field"

\* C15: a schema_add_*_field call that returns a schema returns the fields
\* of the input schema, with the same names, types, options and positions,
\* followed by one field of the new name and of the type of the function;
\* the input schema is the same after the call.
C15_CopyOnExtend ==
    (SchemaAddCall /\ IsOk(ret)) =>
        LET old == nif.args.schema_res
        IN /\ Len(ret.val) = Len(old) + 1
           /\ \A j \in 1..Len(old) : ret.val[j] = old[j]
           /\ ret.val[Len(old) + 1].name = nif.args.field_name
           /\ ret.val[Len(old) + 1].type = AddFieldKinds[nif.args.kind]
           /\ nif.locals.schema_res = old

\* A field is added to a schema of two fields with options that differ
\* from the default ones.
C15_TwoFieldsExtended ==
    /\ SchemaAddCall /\ IsOk(ret)
    /\ Len(ret.val) = 3
    /\ ret.val[1].options.fast /\ ret.val[2].options.stored

\* The name of the call is a field of its input schema.
NamesPresentField ==
    \E j \in 1..Len(nif.args.schema_res) :
        nif.args.schema_res[j].name = nif.args.field_name

\* C16: the field names of every schema a schema_add_*_field call returns
\* are pairwise distinct, and a call that names a field of its input
\* schema returns an error value and no schema.
C16_UniqueNamesDuplicateIsError ==
    SchemaAddCall =>
        /\ IsOk(ret) =>
               \A j, k \in 1..Len(ret.val) :
                   ret.val[j].name = ret.val[k].name => j = k
        /\ NamesPresentField => IsErr(ret)


\* The caller holds the guard of the writer.
Using(p) == pc[p].at \in InCriticalSection

\* C17: in every interleaving of calls on one writer at most one caller is
\* between taking the lock and returning, and while a batch add is there
\* no commit and no rollback has taken effect since it took the lock and
\* every operation queued since then is one of its own adds.
C17_WriterOperationsExclusive ==
    /\ \A p, q \in Callers : (Using(p) /\ Using(q)) => p = q
    /\ \A p \in Callers :
           (Using(p) /\ pc[p].op = "writer_add_document_batch") =>
               /\ pc[p].epoch = Len(commit_log) + Cardinality(discarded)
               /\ Len(pending) >= pc[p].start
               /\ \A j \in (pc[p].start + 1)..Len(pending) :
                      pending[j].by = p /\ pending[j].kind = "add"

\* A batch add has queued a document and has more to go while another
\* caller waits for the lock in a commit, a rollback or a delete.
C17_BatchHoldsOthersWait ==
    \E p, q \in Callers :
        /\ pc[p].op = "writer_add_document_batch" /\ pc[p].at = "held"
        /\ Len(pending) > pc[p].start
        /\ pc[q].at = "lock"
        /\ pc[q].op \in {"writer_commit", "writer_rollback", "writer_delete_term",
                          "writer_delete_all_documents"}

\* The documents of the index after its k-th commit.
CommittedAt(k) == IF k = 0 THEN {} ELSE commit_log[k]

\* C18: every searcher holds exactly the documents of the last commit that
\* had taken effect when index_reader returned it, whatever was queued,
\* committed or rolled back since: it holds no document that is queued
\* and not committed and no document that a rollback discarded.
C18_SearcherSeesLastCommit ==
    \A j \in 1..Len(searchers) :
        /\ searchers[j].docs = CommittedAt(searchers[j].commits)
        /\ searchers[j].docs \cap PendingDocs = {}
        /\ searchers[j].docs \cap discarded = {}

\* A commit has taken effect after the searcher was obtained and a
\* document is queued since: the index holds a document that the searcher
\* does not.
C18_CommitAfterSearcher ==
    /\ Len(searchers) = 1
    /\ searchers[1].commits < Len(commit_log)
    /\ searchers[1].docs # committed
    /\ PendingDocs # {}

\* A tokenized Text field.
TokenizedText(name) ==
    IsField(name) /\ EntryOf(name).type = "Str" /\ HasIndexingOptions(EntryOf(name))

\* C21: query_term on a tokenized Text field returns, for a value of one
\* word, a Term query on the lower-cased word, and for a value of several
\* words a Boolean query of one Must clause per word, each a Term query on
\* the lower-cased word, in the order of the words.
C21_TermPerLowercasedWord ==
    (nif.op = "query_term" /\ TokenizedText(nif.args.field_name)
     /\ Len(SplitWhitespace(nif.args.term_value)) >= 1)
    => LET words == SplitWhitespace(nif.args.term_value)
           field == GetField(nif.args.field_name).val
           word_query(n) == QTerm(FV(field, VStr(ToLowercase(words[n]))), "Basic")
       IN /\ IsOk(ret)
          /\ IF Len(words) = 1 THEN ret.val = word_query(1)
             ELSE /\ ret.val.q = "Boolean"
                  /\ Len(ret.val.clauses) = Len(words)
                  /\ \A n \in 1..Len(words) :
                         ret.val.clauses[n] = Clause("Must", word_query(n))

\* The caller is inside the write of facet_collector_add_facet.
WritingCollector(p) == frame[p].op = "facet_collector_add_facet" /\ frame[p].step = 2

\* C22: no caller is inside the write of facet_collector_add_facet on a
\* collector while another caller is inside that write or inside the
\* search of facet_search on the same collector.
C22_CollectorNotMutatedWhileShared ==
    \A p \in Callers : WritingCollector(p) => ~Overlaps(p)

\* An integer above the signed range, in the unsigned one, for an I64 field.
UnsignedAboveI64(pair) ==
    /\ IsField(pair.k) /\ EntryOf(pair.k).type = "I64"
    /\ pair.v.t = "int" /\ pair.v.i > MaxI64 /\ pair.v.i <= MaxU64

AboveI64Pairs(document) ==
    IF IsOk(DecodeMap(document))
    THEN {document.m[n] : n \in {j \in 1..Len(document.m) : UnsignedAboveI64(document.m[j])}}
    ELSE {}

\* C23: an unsigned integer above 2^63-1 offered for an I64 field is not
\* accepted: no add-document operation stores a value of that field in the
\* document it hands to the writer, and writer_delete_term deletes by no
\* term of that field.
C23_UnsignedAboveI64Rejected ==
    /\ nif.op \in AddDocumentOps
       => \A n \in 1..Len(DocumentsOf(nif)) :
              \A p \in AboveI64Pairs(DocumentsOf(nif)[n]) : NoValueOn(p.k)
    /\ (nif.op = "writer_delete_term"
        /\ UnsignedAboveI64([k |-> nif.args.term_field, v |-> nif.args.term_value]))
       => engine = <<>>

\* C24: register_text_analyzer never panics: it registers the analyzer and
\* returns success, or it returns an error value and leaves the tokenizer
\* manager and the registry of names as they were.
C24_RegisterTextAnalyzerTotal ==
    nif.op = "register_text_analyzer"
    => /\ ~IsPanic(ret)
       /\ IsOk(ret) => "t" \in nif.locals.tokenizers.registry
       /\ IsErr(ret) => nif.locals.tokenizers = nif.args.tokenizers

\* C25: no interleaving of reader-manager calls on one manager deadlocks:
\* no two calls wait for each other, each at a lock statement whose lock the
\* other holds (guards are dropped only at return, so such calls never
\* return).
C25_ManagerCallsNeverWaitInCycle ==
    \A p, q \in Callers :
        ~ /\ p # q
          /\ Blocked(p, ManagerLocks(frame[p].op))
          /\ Blocked(q, ManagerLocks(frame[q].op))
          /\ guards[p] # {} /\ guards[q] # {}

\* C26: no interleaving of index-warming calls on one warming resource
\* deadlocks: no two calls wait for each other, each at a lock statement
\* whose lock (cache, stats) the other holds.
C26_WarmingCallsNeverWaitInCycle ==
    \A p, q \in Callers :
        ~ /\ p # q
          /\ Blocked(p, WarmingLocks(frame[p].op))
          /\ Blocked(q, WarmingLocks(frame[q].op))
          /\ guards[p] # {} /\ guards[q] # {}

\* C28: when no index-warming call is running, memory_usage_bytes is the
\* sum of size_bytes over the entries in the cache, also after warm_index
\* ran again with a key that is cached.
C28_MemoryUsageIsSumOfEntries ==
    (\A p \in Callers : frame[p].op = "none")
    => resource.memory_usage_bytes = size_bytes * Cardinality(resource.cache)

\* C27: no interleaving of custom-collector calls on one collector resource
\* deadlocks: no two calls wait for each other, each at a lock statement
\* whose lock (collectors, scoring_functions) the other holds.
C27_CollectorCallsNeverWaitInCycle ==
    \A p, q \in Callers :
        ~ /\ p # q
          /\ Blocked(p, CollectorLocks(frame[p].op))
          /\ Blocked(q, CollectorLocks(frame[q].op))
          /\ guards[p] # {} /\ guards[q] # {}

\* The keys of a document map are all fields of the schema.
KeysAreFields(document) ==
    \A n \in 1..Len(document.m) : IsOk(GetField(document.m[n].k))

\* C29: for a document whose keys are all fields of the schema,
\* validate_document_against_schema returns ok exactly when the batch
\* writer's coercion of its fields (add_field_to_document on each) gives no
\* field error: the two accept the same values for every field type.
C29_ValidationAgreesWithCoercion ==
    (/\ nif.op = "validate_document_against_schema"
     /\ IsOk(DecodeMap(nif.args.document))
     /\ KeysAreFields(nif.args.document))
    => (IsOk(ret) <=> IsOk(BatchFields(nif.args.document.m, <<>>)))

\* The JSON value a renderer gives a stored value.
RenderedValue(value) ==
    IF nif.op = "searcher_search_with_query" THEN search_json_value(value)
    ELSE convert_owned_value_to_json(value)

\* C30: a rendered hit keeps every stored value of the document: each value
\* of each stored field is the value the hit has under the field's name, or
\* an item of it; none is overwritten by a later value of the field.
C30_HitKeepsEveryStoredValue ==
    RenderedHit
    => LET doc == StoredDocs(nif.args.indexed)[1]
       IN \A n \in 1..Len(doc) :
              LET name == GetFieldName(doc[n].field)
                  j == RenderedValue(doc[n].value)
              IN /\ name \in DOMAIN HitFields
                 /\ \/ HitFields[name] = j
                    \/ /\ HitFields[name].j = "Array"
                       /\ \E i \in 1..Len(HitFields[name].items) :
                              HitFields[name].items[i] = j

=============================================================================
